---- MODULE Spec2Model ----
(***************************************************************************)
(* HAML parser (hypi-universe/haml): the element registry (new_node), the  *)
(* per-kind grammar handlers (set_attr, append_child, set_str_body,        *)
(* validate), the streaming tree builder (ParsedDocument::from_str) and    *)
(* the import protocol, as a state machine.                                *)
(*                                                                         *)
(* Conventions.  Option<T>: None is <<>>, Some(x) is <<x>>.  NodePtr<T>:   *)
(* the index of the node in the sequence heap.  Strings are atomic values; *)
(* to_lowercase, str::parse and str::split are tables over the strings the *)
(* model feeds to the parser.                                              *)
(***************************************************************************)
EXTENDS Integers, Sequences, FiniteSets, TLC

VARIABLES
  heap,       \* the nodes allocated so far (NodePtr = index)
  frames,     \* the activations of from_str, the innermost last
  result,     \* what the outermost call returned, once it has
  reads,      \* the files asked of read_schema_file, in order
  last,       \* the last event or call handled
  parent_of,  \* for each node, the node it was a child element of (0: a root)
  log         \* the attributes applied to a node through set_attr, in order

vars == <<heap, frames, result, reads, last, parent_of, log>>

None == <<>>
Some(x) == <<x>>

(***************************************************************************)
(* Bounds of the model.                                                    *)
(***************************************************************************)
MaxNodes == 3
MaxFrames == 2
MaxText == 1
MaxApplied == 2

(***************************************************************************)
(* Error codes, element names and attribute names (haml_parser.rs 24-172). *)
(***************************************************************************)

\* the error codes (haml_parser.rs 24-61)
HAML_CODE ==
  [UNKNOWN_ATTR |-> "haml_unknown_attr", INVALID_PROVIDER |-> "haml_invalid_provider",
   INVALID_STEP_LOC |-> "haml_invalid_step_loc",
   MISSING_IMPORT |-> "haml_missing_import",
   UNKNOWN_WELL_KNOWN_TYPE |-> "haml_unknown_well_known_type",
   UNSUPPORTED_CHILD |-> "haml_unsupported_child",
   CANNOT_REPEAT |-> "haml_cannot_repeat", UNKNOWN_EL |-> "haml_unknown_element",
   XML_SYNTAX |-> "haml_xml_syntax", XML_IO |-> "haml_xml_io",
   XML_UTF8 |-> "haml_xml_utf8", XML_EOF |-> "haml_xml_eof", NO_ROOT |-> "haml_no_root"]

\* the element names: EL.TABLE is the constant EL_TABLE, and so on
EL ==
  [TABLE |-> "table", TABLES |-> "tables", APIS |-> "apis", DOCUMENT |-> "document",
   COLUMN |-> "column", COLUMN_PIPELINE |-> "pipeline", PIPELINE_ARGS |-> "args",
   PIPELINE_WRITE |-> "write", PIPELINE_READ |-> "read", HYPI |-> "hypi",
   MAPPING |-> "mapping", GLOBAL_OPTIONS |-> "global-options", CORE_API |-> "core-api",
   REST |-> "rest", ENDPOINT |-> "endpoint", QUERY_OPTIONS_RESPONSE |-> "response",
   PIPELINE |-> "pipeline", DB |-> "db", SCHEMA |-> "schema", ENV |-> "env",
   SQL |-> "sql", FN |-> "fn", STEP |-> "step", STEP_BUILDER |-> "step-builder",
   WEBSOCKET |-> "websocket", SCRIPT |-> "script", CALL |-> "call",
   GRAPHQL |-> "graphql", JOB |-> "job", META |-> "meta", PAIR |-> "pair",
   CONSTRAINT |-> "constraint", PROVIDER |-> "provider"]

\* the attribute names: ATTR.NAME is the constant ATTR_NAME, and so on
ATTR ==
  [NAME |-> "name", COLUMNS |-> "columns", DB_NAME |-> "db_name", HOST |-> "host",
   PORT |-> "port", USERNAME |-> "username", PASSWORD |-> "password",
   OPTIONS |-> "options", ASYNC |-> "async", DB |-> "db", LABEL |-> "label",
   SOURCE |-> "source", BASE |-> "base", PK |-> "primary_key", NULLABLE |-> "nullable",
   TYPE |-> "type", UNIQUE |-> "unique", DEFAULT |-> "default", KEY |-> "key",
   VALUE |-> "value", FROM |-> "from", ENABLE_SUBSCRIPTIONS |-> "enable-subscriptions",
   TO |-> "to", IMPORT |-> "import", TARGET |-> "target", PATH |-> "path",
   PRODUCES |-> "produces", ACCEPTS |-> "accepts", STATUS |-> "status",
   WHEN |-> "when", YIELD |-> "yield", PUBLIC |-> "public", PIPELINE |-> "pipeline",
   INTERVAL_FREQUENCY |-> "intervalfrequency", INTERVAL |-> "interval",
   START |-> "start", END |-> "end", REPEATS |-> "repeats", METHOD |-> "method",
   VERSION |-> "version", PROVIDER |-> "provider", BEFORE |-> "before",
   AFTER |-> "after", IMAGE |-> "image", ON_DELETE |-> "on_delete",
   ON_UPDATE |-> "on_update"]

\* the values of the type attribute of a constraint
FK_TYPE ==
  [FOREIGN |-> "foreign_key", UNIQUE |-> "unique"]

ATTR_ENABLED == "enabled"

IGNORED_ATTRS == {"xmlns", "schemaLocation"}

COL_TYPES ==
  [x \in {"text", "int", "bigint", "float", "double", "timestamp", "boolean", "bytea"} |->
     CASE x = "text" -> "TEXT" [] x = "int" -> "INT" [] x = "bigint" -> "BIGINT"
       [] x = "float" -> "FLOAT" [] x = "double" -> "DOUBLE"
       [] x = "timestamp" -> "TIMESTAMP" [] x = "boolean" -> "BOOL" [] x = "bytea" -> "BYTEA"]

CORE_APIS ==
  [x \in {"register", "login-by-email", "login-by-username", "oauth", "password-reset-trigger",
          "password-reset", "verify-account", "magic-link", "2fa-email", "2fa-sms",
          "2fa-step2", "2fa-totp"} |->
     CASE x = "register" -> "Register" [] x = "login-by-email" -> "LoginByEmail"
       [] x = "login-by-username" -> "LoginByUsername" [] x = "oauth" -> "OAuth"
       [] x = "password-reset-trigger" -> "PasswordResetTrigger"
       [] x = "password-reset" -> "PasswordReset" [] x = "verify-account" -> "VerifyAccount"
       [] x = "magic-link" -> "MagicLink" [] x = "2fa-email" -> "TwoFactorAuthEmail"
       [] x = "2fa-sms" -> "TwoFactorAuthSms" [] x = "2fa-step2" -> "TwoFactorStep2"
       [] x = "2fa-totp" -> "TwoFactorTotp"]

(***************************************************************************)
(* String primitives of the standard library, as tables over the strings   *)
(* of the model: every string not listed is already lower case, is not a   *)
(* number and holds no separator.                                          *)
(***************************************************************************)
to_lowercase(s) ==
  LET UpperCased ==
        ("Name" :> "name") @@ ("NAME" :> "name") @@ ("Import" :> "import") @@ ("Type" :> "type")
      @@ ("On_Delete" :> "on_delete") @@ ("Value" :> "value") @@ ("Label" :> "label")
      @@ ("Well-Known" :> "well-known") @@ ("Before" :> "before") @@ ("Image" :> "image")
      @@ ("schemaLocation" :> "schemalocation")
      @@ ("TRUE" :> "true") @@ ("True" :> "true") @@ ("Cascade" :> "cascade")
      @@ ("UNIQUE" :> "unique") @@ ("Foreign_Key" :> "foreign_key") @@ ("TEXT" :> "text")
      @@ ("Account" :> "account") @@ ("Register" :> "register") @@ ("Postgres" :> "postgres")
      @@ ("(SQID)" :> "(sqid)") @@ ("First" :> "first")
  IN IF s \in DOMAIN UpperCased THEN UpperCased[s] ELSE s

\* str::parse::<u16>: Ok(n) is Some(n), Err is None ("70000" overflows u16)
parse_u16(s) ==
  LET Numbers == ("200" :> 200) @@ ("404" :> 404) @@ ("5432" :> 5432)
  IN IF s \in DOMAIN Numbers THEN Some(Numbers[s]) ELSE None

\* str::split(","), str::split("|")
split_comma(s) ==
  LET Separated == ("a,b" :> <<"a", "b">>) @@ ("a|b" :> <<"a|b">>)
  IN IF s \in DOMAIN Separated THEN Separated[s] ELSE <<s>>
split_pipe(s) ==
  LET PipeSeparated == ("a|b" :> <<"a", "b">>) @@ ("a,b" :> <<"a,b">>)
  IN IF s \in DOMAIN PipeSeparated THEN PipeSeparated[s] ELSE <<s>>

\* str::trim().is_empty()
trim_is_empty(s) == s \in {"", " "}

(***************************************************************************)
(* Location, ParseErr, ParseCtx.                                           *)
(***************************************************************************)
Location_default == [file_name |-> "", line |-> 0, column |-> 0, child_index |-> 0]

ParseErr(file, line, column, code, element) ==
  [file |-> file, line |-> line, column |-> column, code |-> code, element |-> element]

Ok(v) == [tag |-> "Ok", val |-> v]
Err(e) == [tag |-> "Err", err |-> e]
\* the handler reached the call ParsedDocument::from_str(file, ctx.fs)
Call(file) == [tag |-> "Call", file |-> file]

CtxErr(ctx, code, element) ==
  Err(ParseErr(ctx.file_name, ctx.line_number, ctx.column, code, element))

\* position is the tokenizer's TextPosition (row, column), both 0-based
ParseCtx_new(file_name, position, attributes) ==
  [file_name |-> file_name, attributes |-> attributes,
   line_number |-> position.row + 1, column |-> position.column + 1]

(***************************************************************************)
(* The element registry: new_node.  A node is a record whose kind field is *)
(* the variant of ParsedHypiSchemaElement; ParsedTables (a Vec) and        *)
(* ApiCoreApi (a String) carry no Location.  The ParsedMeta and ParsedApis *)
(* a document is built with are its meta/apis = None; Some(p) is the child *)
(* assigned by append_child.  A schema's tables vector is shared with a    *)
(* <tables> child once one is assigned: tables_ptr = Some(p).              *)
(***************************************************************************)
Kinds ==
  {"ParsedDocument", "ParsedTables", "ParsedTable", "Column", "Apis", "ColumnPipeline",
   "ColumnPipelineArgs", "ColumnPipelineWrite", "ColumnPipelineRead", "Hypi", "Mapping",
   "ApiGlobalOptions", "ApiCoreApi", "ApiRest", "ApiEndpoint", "ApiEndpointResponse",
   "ApiEndpointSql", "ApiEndpointScript", "ApiEndpointCall", "ApiEndpointFn", "DockerStep",
   "DockerStepBuilder", "ApiEndpointWebsocket", "ApiGraphQL", "ApiJob", "Pipeline", "Env",
   "Db", "ParsedSchema", "Constraint", "Meta", "Pair"}

Located(kind) == [kind |-> kind, start_pos |-> Location_default, end_pos |-> Location_default]

ParsedTable_default ==
  Located("ParsedTable") @@ [hypi |-> None, columns |-> <<>>, constraints |-> <<>>, name |-> ""]

ParsedEndpoint_default ==
  Located("ApiEndpoint") @@
  [method |-> "Default", path |-> None, name |-> None, public |-> None, accepts |-> None,
   produces |-> None, pipeline |-> None, responses |-> <<>>, websockets |-> <<>>]

\* a pipeline that is asynchronous unless told otherwise
ParsedPipeline_async ==
  Located("Pipeline") @@
  [name |-> "", label |-> None, steps |-> <<>>, docker_steps |-> <<>>, is_async |-> TRUE]

ParsedPipeline_default ==
  Located("Pipeline") @@
  [name |-> "", label |-> None, steps |-> <<>>, docker_steps |-> <<>>, is_async |-> FALSE]

Unique == [variant |-> "Unique"]
ForeignKey(on_delete, on_update) ==
  [variant |-> "ForeignKey", on_delete |-> on_delete, on_update |-> on_update]

Dockerfile(path) == [variant |-> "Dockerfile", path |-> path]

new_node(parent_name, ctx, name) ==
  CASE name = EL.DOCUMENT ->
         Ok(Located("ParsedDocument") @@
            [meta |-> None, apis |-> None, databases |-> <<>>, env |-> <<>>,
             step_builders |-> <<>>])
    [] name = EL.TABLES -> Ok([kind |-> "ParsedTables", items |-> <<>>])
    [] name = EL.TABLE -> Ok(ParsedTable_default)
    [] name = EL.APIS ->
         Ok(Located("Apis") @@
            [global_options |-> None, rest |-> None, graphql |-> None, pipelines |-> <<>>,
             jobs |-> <<>>])
    [] name = EL.COLUMN ->
         Ok(Located("Column") @@
            [name |-> "", typ |-> "TEXT", nullable |-> TRUE, unique |-> FALSE,
             default |-> None, primary_key |-> FALSE, pipeline |-> None])
    [] name = EL.COLUMN_PIPELINE /\ parent_name = Some(EL.COLUMN) ->
         Ok(Located("ColumnPipeline") @@ [args |-> None, write |-> None, read |-> None])
    [] name = EL.PIPELINE_ARGS -> Ok(Located("ColumnPipelineArgs") @@ [value |-> ""])
    [] name = EL.ENV -> Ok(Located("Env") @@ [name |-> "", value |-> ""])
    [] name = EL.DB ->
         Ok(Located("Db") @@
            [label |-> "", db_name |-> "", host |-> "", port |-> None, typ |-> "MekaDb",
             username |-> "", password |-> "", options |-> None, schemas |-> <<>>])
    [] name = EL.SCHEMA ->
         Ok(Located("ParsedSchema") @@ [name |-> "", tables |-> <<>>, tables_ptr |-> None])
    [] name = EL.CONSTRAINT ->
         Ok(Located("Constraint") @@
            [name |-> "", columns |-> <<>>, typ |-> Unique, mappings |-> <<>>])
    [] name = EL.META -> Ok(Located("Meta") @@ [key_value_pairs |-> <<>>])
    [] name = EL.PAIR -> Ok(Located("Pair") @@ [key |-> "", value |-> ""])
    [] name = EL.PIPELINE_WRITE -> Ok(Located("ColumnPipelineWrite") @@ [value |-> ""])
    [] name = EL.PIPELINE_READ -> Ok(Located("ColumnPipelineRead") @@ [value |-> ""])
    [] name = EL.HYPI -> Ok(Located("Hypi") @@ [well_known |-> None, mappings |-> <<>>])
    [] name = EL.MAPPING ->
         Ok(Located("Mapping") @@
            [from |-> "", to |-> None, children |-> <<>>, typ |-> None])
    [] name = EL.GLOBAL_OPTIONS ->
         Ok(Located("ApiGlobalOptions") @@
            [core_apis |-> <<>>, explicitly_enabled_crud_tables |-> <<>>,
             implicit_steps |-> <<>>])
    [] name = EL.CORE_API -> Ok([kind |-> "ApiCoreApi", value |-> ""])
    [] name = EL.REST -> Ok(Located("ApiRest") @@ [base |-> "/", endpoints |-> <<>>])
    [] name = EL.ENDPOINT -> Ok(ParsedEndpoint_default)
    [] name = EL.SCRIPT ->
         Ok(Located("ApiEndpointScript") @@
            [file |-> "", label |-> None, typ |-> "JavaScript", is_async |-> FALSE])
    [] name = EL.CALL ->
         Ok(Located("ApiEndpointCall") @@
            [target |-> "", label |-> None, mappings |-> <<>>, is_async |-> FALSE])
    [] name = EL.GRAPHQL ->
         Ok(Located("ApiGraphQL") @@
            [base |-> "", from |-> "", enable_subscriptions |-> TRUE])
    [] name = EL.JOB ->
         Ok(Located("ApiJob") @@
            [name |-> "", pipeline |-> "", start |-> "", end |-> "", interval |-> "",
             interval_frequency |-> "", enabled |-> FALSE, repeats |-> FALSE])
    [] name = EL.QUERY_OPTIONS_RESPONSE ->
         Ok(Located("ApiEndpointResponse") @@
            [status |-> 0, when |-> None, yield_expr |-> None, body |-> None,
             mappings |-> <<>>])
    [] name = EL.SQL ->
         Ok(Located("ApiEndpointSql") @@
            [sql |-> "", db_name |-> None, label |-> None, mappings |-> <<>>,
             is_async |-> FALSE])
    [] name = EL.FN ->
         Ok(Located("ApiEndpointFn") @@
            [name |-> "", label |-> None, version |-> "", mappings |-> <<>>,
             is_async |-> FALSE])
    [] name = EL.STEP ->
         Ok(Located("DockerStep") @@
            [name |-> "", mappings |-> <<>>, implicit_before_position |-> None,
             provider |-> Dockerfile("."), implicit_after_position |-> None])
    [] name = EL.STEP_BUILDER ->
         Ok(Located("DockerStepBuilder") @@
            [username |-> None, password |-> None, image |-> "", tag |-> None])
    [] name = EL.WEBSOCKET ->
         Ok(Located("ApiEndpointWebsocket") @@ [base |-> "/", sources |-> <<>>])
    [] name = EL.PIPELINE /\ parent_name # Some(EL.COLUMN) -> Ok(ParsedPipeline_default)
    [] OTHER -> CtxErr(ctx, HAML_CODE.UNKNOWN_EL, name)

\* ParsedHypiSchemaElement::name
name_of(el) ==
  CASE el.kind = "ParsedDocument" -> EL.DOCUMENT
    [] el.kind = "ParsedTables" -> EL.TABLES
    [] el.kind = "ParsedTable" -> EL.TABLE
    [] el.kind = "Column" -> EL.COLUMN
    [] el.kind = "Apis" -> EL.APIS
    [] el.kind = "ColumnPipeline" -> EL.COLUMN_PIPELINE
    [] el.kind = "ColumnPipelineArgs" -> EL.PIPELINE_ARGS
    [] el.kind = "ColumnPipelineWrite" -> EL.PIPELINE_WRITE
    [] el.kind = "ColumnPipelineRead" -> EL.PIPELINE_READ
    [] el.kind = "Hypi" -> EL.HYPI
    [] el.kind = "Mapping" -> EL.MAPPING
    [] el.kind = "ApiGlobalOptions" -> EL.GLOBAL_OPTIONS
    [] el.kind = "ApiCoreApi" -> EL.CORE_API
    [] el.kind = "ApiRest" -> EL.REST
    [] el.kind = "ApiEndpoint" -> EL.ENDPOINT
    [] el.kind = "ApiEndpointResponse" -> EL.QUERY_OPTIONS_RESPONSE
    [] el.kind = "ApiEndpointSql" -> EL.SQL
    [] el.kind = "DockerStep" -> EL.STEP
    [] el.kind = "DockerStepBuilder" -> EL.STEP_BUILDER
    [] el.kind = "ApiEndpointFn" -> EL.FN
    [] el.kind = "ApiEndpointWebsocket" -> EL.WEBSOCKET
    [] el.kind = "ApiEndpointScript" -> EL.SCRIPT
    [] el.kind = "ApiEndpointCall" -> EL.CALL
    [] el.kind = "ApiGraphQL" -> EL.GRAPHQL
    [] el.kind = "ApiJob" -> EL.JOB
    [] el.kind = "Pipeline" -> EL.COLUMN_PIPELINE
    [] el.kind = "Env" -> EL.ENV
    [] el.kind = "Db" -> EL.DB
    [] el.kind = "Constraint" -> EL.CONSTRAINT
    [] el.kind = "ParsedSchema" -> EL.SCHEMA
    [] el.kind = "Meta" -> EL.META
    [] el.kind = "Pair" -> EL.PAIR

\* ParsedHypiSchemaElement::set_location
set_location(el, line, column, child_index, file_name, is_start) ==
  LET loc == [file_name |-> file_name, line |-> line, column |-> column,
              child_index |-> child_index]
  IN IF el.kind \in {"ParsedTables", "ApiCoreApi"} THEN el
     ELSE IF is_start THEN [el EXCEPT !.start_pos = loc]
     ELSE [el EXCEPT !.end_pos = loc]

(***************************************************************************)
(* set_attr, per node kind.  Each returns Ok(self'), Err(e), or            *)
(* Call(file) where the handler calls ParsedDocument::from_str(file); the  *)
(* rest of that handler is the kind's *_import operator.                   *)
(***************************************************************************)
is_true(value) == to_lowercase(value) = "true"

\* the strings s for which s.replace(&[' ', '\t'], "") contains "(sqid)"
SqidForms == {"(sqid)", "( sqid )"}

parse_column_type(ctx, value) ==
  IF to_lowercase(value) \in DOMAIN COL_TYPES THEN Ok(COL_TYPES[to_lowercase(value)])
  ELSE CtxErr(ctx, HAML_CODE.UNKNOWN_ATTR, EL.COLUMN)

\* rapid_utils::http_utils::HttpMethod::from
HttpMethod_from(value) ==
  IF value \in {"GET", "POST", "PUT", "DELETE", "PATCH"} THEN Some(value) ELSE None

DatabaseType_from(v) ==
  LET DatabaseTypes ==
        ("mekadb" :> "MekaDb") @@ ("postgres" :> "Postgres") @@ ("mysql" :> "MySQL")
        @@ ("mariadb" :> "MariaDB") @@ ("oracle" :> "Oracle") @@ ("mssql" :> "MsSql")
  IN IF to_lowercase(v) \in DOMAIN DatabaseTypes
     THEN Some(DatabaseTypes[to_lowercase(v)])
     ELSE None

ImplicitDockerStepPosition_from_str(input) ==
  CASE input = "first" -> Ok("First")
    [] input = "each" -> Ok("Each")
    [] input = "last" -> Ok("Each")
    [] OTHER -> Err("Invalid position")

ParsedDocument_set_attr(self, ctx, name, value) ==
  CtxErr(ctx, HAML_CODE.UNKNOWN_ATTR, EL.DOCUMENT)

\* import without the check of the other attributes
ParsedTable_set_attr_unchecked(self, ctx, name, value) ==
  LET attr_name == to_lowercase(name) IN
  CASE attr_name = ATTR.IMPORT -> Call(value)
    [] attr_name = ATTR.NAME -> Ok([self EXCEPT !.name = value])
    [] OTHER -> CtxErr(ctx, HAML_CODE.UNKNOWN_ATTR, EL.TABLE)

ParsedTable_set_attr(self, ctx, name, value) ==
  LET attr_name == to_lowercase(name) IN
  IF attr_name = ATTR.IMPORT /\ Len(ctx.attributes) > 1
  THEN CtxErr(ctx, HAML_CODE.MISSING_IMPORT, EL.ENDPOINT)
  ELSE CASE attr_name = ATTR.IMPORT -> Call(value)
         [] attr_name = ATTR.NAME -> Ok([self EXCEPT !.name = value])
         [] OTHER -> CtxErr(ctx, HAML_CODE.UNKNOWN_ATTR, EL.TABLE)

ParsedColumn_set_attr(self, ctx, name, value) ==
  CASE name = ATTR.NAME -> Ok([self EXCEPT !.name = value])
    [] name = ATTR.PK -> Ok([self EXCEPT !.primary_key = is_true(value)])
    [] name = ATTR.NULLABLE -> Ok([self EXCEPT !.nullable = is_true(value)])
    [] name = ATTR.TYPE ->
         LET t == parse_column_type(ctx, value)
         IN IF t.tag = "Ok" THEN Ok([self EXCEPT !.typ = t.val]) ELSE t
    [] name = ATTR.UNIQUE -> Ok([self EXCEPT !.unique = is_true(value)])
    [] name = ATTR.DEFAULT ->
         IF to_lowercase(value) \in SqidForms
         THEN Ok([self EXCEPT !.default = Some("UniqueSqid")])
         ELSE IF to_lowercase(value) = "unique"
         THEN Ok([self EXCEPT !.default = Some("UniqueUlid")])
         ELSE CtxErr(ctx, HAML_CODE.UNKNOWN_ATTR, EL.COLUMN)
    [] OTHER -> CtxErr(ctx, HAML_CODE.UNKNOWN_ATTR, EL.COLUMN)

ParsedColumnPipeline_set_attr(self, ctx, name, value) ==
  CtxErr(ctx, HAML_CODE.UNKNOWN_ATTR, EL.COLUMN_PIPELINE)

ParsedColumnPipelineArgs_set_attr(self, ctx, name, value) ==
  IF name = ATTR.VALUE THEN Ok([self EXCEPT !.value = value])
  ELSE CtxErr(ctx, HAML_CODE.UNKNOWN_ATTR, EL.PIPELINE_ARGS)

ParsedColumnPipelineWrite_set_attr(self, ctx, name, value) ==
  IF name = ATTR.VALUE THEN Ok([self EXCEPT !.value = value])
  ELSE CtxErr(ctx, HAML_CODE.UNKNOWN_ATTR, EL.PIPELINE_WRITE)

ParsedColumnPipelineRead_set_attr(self, ctx, name, value) ==
  IF name = ATTR.VALUE THEN Ok([self EXCEPT !.value = value])
  ELSE CtxErr(ctx, HAML_CODE.UNKNOWN_ATTR, EL.PIPELINE_READ)

ParsedCoreApiName_set_attr(self, ctx, name, value) ==
  IF to_lowercase(name) = "name" THEN Ok([self EXCEPT !.value = value])
  ELSE CtxErr(ctx, HAML_CODE.UNKNOWN_ATTR, EL.GLOBAL_OPTIONS)

ParsedGlobalOptions_set_attr(self, ctx, name, value) ==
  IF to_lowercase(name) = "enable-crud-on-tables"
  THEN Ok([self EXCEPT !.explicitly_enabled_crud_tables = @ \o split_comma(value)])
  ELSE CtxErr(ctx, HAML_CODE.UNKNOWN_ATTR, EL.GLOBAL_OPTIONS)

ParsedApis_set_attr(self, ctx, name, value) ==
  CtxErr(ctx, HAML_CODE.UNKNOWN_ATTR, EL.APIS)

ParsedTables_set_attr(self, ctx, name, value) ==
  CtxErr(ctx, HAML_CODE.UNKNOWN_ATTR, EL.TABLES)

ParsedHypi_set_attr(self, ctx, name, value) ==
  IF name = "well-known"
  THEN (CASE to_lowercase(value) = "account" -> Ok([self EXCEPT !.well_known = Some("Account")])
          [] to_lowercase(value) = "file" -> Ok([self EXCEPT !.well_known = Some("File")])
          [] OTHER -> CtxErr(ctx, HAML_CODE.UNKNOWN_WELL_KNOWN_TYPE, EL.HYPI))
  ELSE CtxErr(ctx, HAML_CODE.UNKNOWN_ATTR, EL.TABLE)

ParsedMapping_set_attr(self, ctx, name, value) ==
  LET n == to_lowercase(name) IN
  CASE n = ATTR.FROM -> Ok([self EXCEPT !.from = value])
    [] n = ATTR.TO -> Ok([self EXCEPT !.to = Some(value)])
    [] n = ATTR.TYPE ->
         LET t == parse_column_type(ctx, value)
         IN IF t.tag = "Ok" THEN Ok([self EXCEPT !.typ = Some(t.val)]) ELSE t
    [] OTHER -> CtxErr(ctx, HAML_CODE.UNKNOWN_ATTR, EL.TABLE)

ParsedRest_set_attr(self, ctx, name, value) ==
  IF to_lowercase(name) = ATTR.BASE THEN Ok([self EXCEPT !.base = value])
  ELSE CtxErr(ctx, HAML_CODE.UNKNOWN_ATTR, EL.REST)

ParsedEndpoint_set_attr(self, ctx, name, value) ==
  LET attr_name == to_lowercase(name) IN
  IF attr_name = ATTR.IMPORT /\ Len(ctx.attributes) > 1
  THEN CtxErr(ctx, HAML_CODE.MISSING_IMPORT, EL.ENDPOINT)
  ELSE CASE attr_name = ATTR.ACCEPTS -> Ok([self EXCEPT !.accepts = Some(value)])
         [] attr_name = ATTR.PRODUCES -> Ok([self EXCEPT !.produces = Some(value)])
         [] attr_name = ATTR.PATH -> Ok([self EXCEPT !.path = Some(value)])
         [] attr_name = ATTR.NAME -> Ok([self EXCEPT !.name = Some(value)])
         [] attr_name = ATTR.PUBLIC -> Ok([self EXCEPT !.public = Some(is_true(value))])
         [] attr_name = ATTR.PIPELINE -> Ok([self EXCEPT !.pipeline = Some(value)])
         [] attr_name = ATTR.METHOD ->
              IF HttpMethod_from(value) # None
              THEN Ok([self EXCEPT !.method = HttpMethod_from(value)[1]])
              ELSE CtxErr(ctx, HAML_CODE.UNKNOWN_ATTR, EL.ENDPOINT)
         [] attr_name = ATTR.IMPORT -> Call(value)
         [] OTHER -> CtxErr(ctx, HAML_CODE.UNKNOWN_ATTR, EL.ENDPOINT)

ParsedEndpointResponse_set_attr(self, ctx, name, value) ==
  LET n == to_lowercase(name) IN
  CASE n = ATTR.STATUS ->
         IF parse_u16(value) # None THEN Ok([self EXCEPT !.status = parse_u16(value)[1]])
         ELSE CtxErr(ctx, HAML_CODE.UNKNOWN_ATTR, EL.QUERY_OPTIONS_RESPONSE)
    [] n = ATTR.WHEN -> Ok([self EXCEPT !.when = Some(value)])
    [] n = ATTR.YIELD -> Ok([self EXCEPT !.yield_expr = Some(value)])
    [] OTHER -> CtxErr(ctx, HAML_CODE.UNKNOWN_ATTR, EL.QUERY_OPTIONS_RESPONSE)

ParsedEndpointSql_set_attr(self, ctx, name, value) ==
  LET n == to_lowercase(name) IN
  CASE n = ATTR.ASYNC -> Ok([self EXCEPT !.is_async = is_true(value)])
    [] n = ATTR.DB -> Ok([self EXCEPT !.db_name = Some(value)])
    [] n = ATTR.LABEL -> Ok([self EXCEPT !.label = Some(value)])
    [] OTHER -> CtxErr(ctx, HAML_CODE.UNKNOWN_ATTR, EL.SQL)

ParsedEndpointFn_set_attr(self, ctx, name, value) ==
  LET n == to_lowercase(name) IN
  CASE n = ATTR.LABEL -> Ok([self EXCEPT !.label = Some(value)])
    [] n = ATTR.NAME -> Ok([self EXCEPT !.name = value])
    [] n = ATTR.ASYNC -> Ok([self EXCEPT !.is_async = is_true(value)])
    [] n = ATTR.VERSION -> Ok([self EXCEPT !.version = value])
    [] OTHER -> CtxErr(ctx, HAML_CODE.UNKNOWN_ATTR, EL.FN)

ParsedEndpointWebsocket_set_attr(self, ctx, name, value) ==
  LET n == to_lowercase(name) IN
  CASE n = ATTR.BASE -> Ok([self EXCEPT !.base = value])
    [] n = ATTR.SOURCE -> Ok([self EXCEPT !.sources = @ \o split_pipe(value)])
    [] OTHER -> CtxErr(ctx, HAML_CODE.UNKNOWN_ATTR, EL.WEBSOCKET)

ParsedGraphQL_set_attr(self, ctx, name, value) ==
  LET n == to_lowercase(name) IN
  CASE n = ATTR.BASE -> Ok([self EXCEPT !.base = value])
    [] n = ATTR.FROM -> Ok([self EXCEPT !.from = value])
    [] n = ATTR.ENABLE_SUBSCRIPTIONS -> Ok([self EXCEPT !.enable_subscriptions = is_true(value)])
    [] OTHER -> CtxErr(ctx, HAML_CODE.UNKNOWN_ATTR, EL.GRAPHQL)

ParsedJob_set_attr(self, ctx, name, value) ==
  LET n == to_lowercase(name) IN
  CASE n = ATTR.NAME -> Ok([self EXCEPT !.name = value])
    [] n = ATTR.PIPELINE -> Ok([self EXCEPT !.pipeline = value])
    [] n = ATTR_ENABLED -> Ok([self EXCEPT !.enabled = is_true(value)])
    [] n = ATTR.REPEATS -> Ok([self EXCEPT !.repeats = is_true(value)])
    [] n = ATTR.START -> Ok([self EXCEPT !.start = value])
    [] n = ATTR.END -> Ok([self EXCEPT !.end = value])
    [] n = ATTR.INTERVAL -> Ok([self EXCEPT !.interval = value])
    [] n = ATTR.INTERVAL_FREQUENCY -> Ok([self EXCEPT !.interval_frequency = value])
    [] OTHER -> CtxErr(ctx, HAML_CODE.UNKNOWN_ATTR, EL.JOB)

\* a script whose import is resolved like the import of a pipeline
ParsedEndpointScript_set_attr_resolving(self, ctx, name, value) ==
  LET n == to_lowercase(name) IN
  CASE n = ATTR.LABEL -> Ok([self EXCEPT !.label = Some(value)])
    [] n = ATTR.ASYNC -> Ok([self EXCEPT !.is_async = is_true(value)])
    [] n = ATTR.IMPORT -> Call(value)
    [] OTHER -> CtxErr(ctx, HAML_CODE.UNKNOWN_ATTR, EL.JOB)

ParsedEndpointScript_set_attr(self, ctx, name, value) ==
  LET n == to_lowercase(name) IN
  CASE n = ATTR.LABEL -> Ok([self EXCEPT !.label = Some(value)])
    [] n = ATTR.ASYNC -> Ok([self EXCEPT !.is_async = is_true(value)])
    [] n = ATTR.IMPORT -> Ok([self EXCEPT !.file = value])
    [] OTHER -> CtxErr(ctx, HAML_CODE.UNKNOWN_ATTR, EL.JOB)

ParsedCall_set_attr(self, ctx, name, value) ==
  LET n == to_lowercase(name) IN
  CASE n = ATTR.LABEL -> Ok([self EXCEPT !.label = Some(value)])
    [] n = ATTR.ASYNC -> Ok([self EXCEPT !.is_async = is_true(value)])
    [] n = ATTR.TARGET -> Ok([self EXCEPT !.target = value])
    [] OTHER -> CtxErr(ctx, HAML_CODE.UNKNOWN_ATTR, EL.CALL)

ParsedPipeline_set_attr(self, ctx, name, value) ==
  LET attr_name == to_lowercase(name) IN
  IF attr_name = ATTR.IMPORT /\ Len(ctx.attributes) > 1
  THEN CtxErr(ctx, HAML_CODE.MISSING_IMPORT, EL.PIPELINE)
  ELSE CASE attr_name = ATTR.IMPORT -> Call(value)
         [] attr_name = ATTR.LABEL -> Ok([self EXCEPT !.label = Some(value)])
         [] attr_name = ATTR.NAME -> Ok([self EXCEPT !.name = value])
         [] attr_name = ATTR.ASYNC -> Ok([self EXCEPT !.is_async = is_true(value)])
         [] OTHER -> CtxErr(ctx, HAML_CODE.UNKNOWN_ATTR, EL.PIPELINE)

\* a meta that accepts whatever attribute it is given
ParsedMeta_set_attr_lenient(self, ctx, name, value) ==
  Ok(self)

ParsedMeta_set_attr(self, ctx, name, value) ==
  CtxErr(ctx, HAML_CODE.UNKNOWN_ATTR, EL.META)

ParsedKeyValuePair_set_attr(self, ctx, name, value) ==
  LET n == to_lowercase(name) IN
  CASE n = ATTR.KEY -> Ok([self EXCEPT !.key = value])
    [] n = ATTR.VALUE -> Ok([self EXCEPT !.value = value])
    [] OTHER -> CtxErr(ctx, HAML_CODE.UNKNOWN_ATTR, EL.PAIR)

ParsedSchema_set_attr(self, ctx, name, value) ==
  IF to_lowercase(name) = ATTR.NAME THEN Ok([self EXCEPT !.name = value])
  ELSE CtxErr(ctx, HAML_CODE.UNKNOWN_ATTR, EL.SCHEMA)

ViolationActions == ("cascade" :> "Cascade") @@ ("restrict" :> "Restrict")

\* an on_delete that leaves a Unique constraint as it is
ParsedConstraint_set_attr_no_promotion(self, ctx, name, value) ==
  LET attr_name == to_lowercase(name)
      v == to_lowercase(value)
  IN
  CASE attr_name = ATTR.NAME -> Ok([self EXCEPT !.name = value])
    [] attr_name = ATTR.COLUMNS -> Ok([self EXCEPT !.columns = split_comma(value)])
    [] attr_name = ATTR.ON_DELETE ->
         IF v \notin DOMAIN ViolationActions
         THEN CtxErr(ctx, HAML_CODE.UNKNOWN_ATTR, EL.SCHEMA)
         ELSE IF self.typ.variant = "Unique"
         THEN Ok(self)
         ELSE Ok([self EXCEPT !.typ.on_delete = Some(ViolationActions[v])])
    [] attr_name = ATTR.ON_UPDATE ->
         IF v \notin DOMAIN ViolationActions
         THEN CtxErr(ctx, HAML_CODE.UNKNOWN_ATTR, EL.SCHEMA)
         ELSE IF self.typ.variant = "Unique"
         THEN Ok([self EXCEPT !.typ = ForeignKey(None, Some(ViolationActions[v]))])
         ELSE Ok([self EXCEPT !.typ.on_update = Some(ViolationActions[v])])
    [] attr_name = ATTR.TYPE ->
         (CASE v = FK_TYPE.UNIQUE -> Ok([self EXCEPT !.typ = Unique])
            [] v = FK_TYPE.FOREIGN ->
                 IF self.typ.variant = "Unique"
                 THEN Ok([self EXCEPT !.typ = ForeignKey(None, None)])
                 ELSE Ok(self)
            [] OTHER -> Ok(self))
    [] OTHER -> CtxErr(ctx, HAML_CODE.UNKNOWN_ATTR, EL.SCHEMA)

ParsedConstraint_set_attr(self, ctx, name, value) ==
  LET attr_name == to_lowercase(name)
      v == to_lowercase(value)
  IN
  CASE attr_name = ATTR.NAME -> Ok([self EXCEPT !.name = value])
    [] attr_name = ATTR.COLUMNS -> Ok([self EXCEPT !.columns = split_comma(value)])
    [] attr_name = ATTR.ON_DELETE ->
         IF v \notin DOMAIN ViolationActions
         THEN CtxErr(ctx, HAML_CODE.UNKNOWN_ATTR, EL.SCHEMA)
         ELSE IF self.typ.variant = "Unique"
         THEN Ok([self EXCEPT !.typ = ForeignKey(Some(ViolationActions[v]), None)])
         ELSE Ok([self EXCEPT !.typ.on_delete = Some(ViolationActions[v])])
    [] attr_name = ATTR.ON_UPDATE ->
         IF v \notin DOMAIN ViolationActions
         THEN CtxErr(ctx, HAML_CODE.UNKNOWN_ATTR, EL.SCHEMA)
         ELSE IF self.typ.variant = "Unique"
         THEN Ok([self EXCEPT !.typ = ForeignKey(None, Some(ViolationActions[v]))])
         ELSE Ok([self EXCEPT !.typ.on_update = Some(ViolationActions[v])])
    [] attr_name = ATTR.TYPE ->
         (CASE v = FK_TYPE.UNIQUE -> Ok([self EXCEPT !.typ = Unique])
            [] v = FK_TYPE.FOREIGN ->
                 IF self.typ.variant = "Unique"
                 THEN Ok([self EXCEPT !.typ = ForeignKey(None, None)])
                 ELSE Ok(self)
            [] OTHER -> Ok(self))
    [] OTHER -> CtxErr(ctx, HAML_CODE.UNKNOWN_ATTR, EL.SCHEMA)

ParsedDb_set_attr(self, ctx, name, value) ==
  LET attr_name == to_lowercase(name) IN
  CASE attr_name = ATTR.LABEL -> Ok([self EXCEPT !.label = value])
    [] attr_name = ATTR.DB_NAME -> Ok([self EXCEPT !.db_name = value])
    [] attr_name = ATTR.HOST -> Ok([self EXCEPT !.host = value])
    [] attr_name = ATTR.PORT -> Ok([self EXCEPT !.port = parse_u16(value)])
    [] attr_name = ATTR.USERNAME -> Ok([self EXCEPT !.username = value])
    [] attr_name = ATTR.PASSWORD -> Ok([self EXCEPT !.password = value])
    [] attr_name = ATTR.OPTIONS -> Ok([self EXCEPT !.options = Some(value)])
    [] attr_name = ATTR.TYPE ->
         IF DatabaseType_from(value) # None
         THEN Ok([self EXCEPT !.typ = DatabaseType_from(value)[1]])
         ELSE CtxErr(ctx, HAML_CODE.UNKNOWN_ATTR, EL.DB)
    [] OTHER -> CtxErr(ctx, HAML_CODE.UNKNOWN_ATTR, EL.DB)

ParsedEnv_set_attr(self, ctx, name, value) ==
  LET attr_name == to_lowercase(name) IN
  CASE attr_name = ATTR.NAME -> Ok([self EXCEPT !.name = value])
    [] attr_name = ATTR.VALUE -> Ok([self EXCEPT !.value = value])
    [] OTHER -> CtxErr(ctx, HAML_CODE.UNKNOWN_ATTR, EL.PIPELINE)

(***************************************************************************)
(* Strings that are parsed character by character (provider and image      *)
(* strings, lib.rs) are sequences of one-character strings.  chars gives   *)
(* the characters of an attribute value; a value not listed is one opaque  *)
(* character, which is no separator.                                       *)
(***************************************************************************)
CharsOf ==
  ("hypi:form" :> <<"h", "y", "p", "i", ":", "f", "o", "r", "m">>)
  @@ ("hypi:repo.hypi.ai/rapid-plugin-form:v2" :> <<"h", "y", "p", "i", ":", "r", "e", "p", "o", ".", "h", "y", "p", "i", ".", "a", "i", "/", "r", "a", "p", "i", "d", "-", "p", "l", "u", "g", "i", "n", "-", "f", "o", "r", "m", ":", "v", "2">>)
  @@ ("hypi:user2:pass2@repo.hypi.ai/rapid-plugin-form:v2" :> <<"h", "y", "p", "i", ":", "u", "s", "e", "r", "2", ":", "p", "a", "s", "s", "2", "@", "r", "e", "p", "o", ".", "h", "y", "p", "i", ".", "a", "i", "/", "r", "a", "p", "i", "d", "-", "p", "l", "u", "g", "i", "n", "-", "f", "o", "r", "m", ":", "v", "2">>)
  @@ ("file:my-plugin/Dockerfile" :> <<"f", "i", "l", "e", ":", "m", "y", "-", "p", "l", "u", "g", "i", "n", "/", "D", "o", "c", "k", "e", "r", "f", "i", "l", "e">>)
  @@ ("remote:localhost:2020" :> <<"r", "e", "m", "o", "t", "e", ":", "l", "o", "c", "a", "l", "h", "o", "s", "t", ":", "2", "0", "2", "0">>)
  @@ ("remote:localhost" :> <<"r", "e", "m", "o", "t", "e", ":", "l", "o", "c", "a", "l", "h", "o", "s", "t">>)
  @@ ("docker:form" :> <<"d", "o", "c", "k", "e", "r", ":", "f", "o", "r", "m">>)
  @@ ("builder:dir" :> <<"b", "u", "i", "l", "d", "e", "r", ":", "d", "i", "r">>)
  @@ ("user:pass@img" :> <<"u", "s", "e", "r", ":", "p", "a", "s", "s", "@", "i", "m", "g">>)
  @@ ("user@img:v1" :> <<"u", "s", "e", "r", "@", "i", "m", "g", ":", "v", "1">>)
  @@ ("img:v1" :> <<"i", "m", "g", ":", "v", "1">>)
  @@ ("plain" :> <<"p", "l", "a", "i", "n">>)

chars(s) == IF s \in DOMAIN CharsOf THEN CharsOf[s] ELSE <<s>>

\* the string literals of lib.rs, as characters
LIT ==
  [DOCKERFILE |-> <<"d", "o", "c", "k", "e", "r", "f", "i", "l", "e">>,
   FILE |-> <<"f", "i", "l", "e", ":">>,
   HYPI |-> <<"h", "y", "p", "i", ":">>,
   REMOTE |-> <<"r", "e", "m", "o", "t", "e", ":">>,
   DOCKER |-> <<"d", "o", "c", "k", "e", "r", ":">>]

str_to_lowercase(s) ==
  LET UpperChars == ("D" :> "d") @@ ("F" :> "f") @@ ("H" :> "h") @@ ("R" :> "r")
  IN [i \in 1..Len(s) |-> IF s[i] \in DOMAIN UpperChars THEN UpperChars[s[i]] ELSE s[i]]

starts_with(s, p) == Len(p) <= Len(s) /\ SubSeq(s, 1, Len(p)) = p
ends_with(s, p) == Len(p) <= Len(s) /\ SubSeq(s, Len(s) - Len(p) + 1, Len(s)) = p
strip_prefix(s, p) == IF starts_with(s, p) THEN Some(SubSeq(s, Len(p) + 1, Len(s))) ELSE None
strip_suffix(s, p) == IF ends_with(s, p) THEN Some(SubSeq(s, 1, Len(s) - Len(p))) ELSE None
unwrap_or(o, d) == IF o = None THEN d ELSE o[1]
contains(s, c) == \E i \in 1..Len(s) : s[i] = c

\* str::find(c): the 0-based index of the first c
find(s, c) ==
  IF contains(s, c) THEN Some((CHOOSE i \in 1..Len(s) : s[i] = c /\ \A j \in 1..(i-1) : s[j] # c) - 1)
  ELSE None

\* s.chars().take_while(|v| v != c).collect()
take_while_not(s, c) == IF contains(s, c) THEN SubSeq(s, 1, find(s, c)[1]) ELSE s

\* s.split(c): the segments between the occurrences of c, at least one
RECURSIVE split(_, _)
split(s, c) ==
  IF contains(s, c)
  THEN <<SubSeq(s, 1, find(s, c)[1])>> \o split(SubSeq(s, find(s, c)[1] + 2, Len(s)), c)
  ELSE <<s>>

\* Iterator::next in place of Iterator::last
seq_first(q) == q[1]

seq_last(q) == q[Len(q)]

DockerConnectionInfo_new(username, password, image, tag) ==
  Located("DockerStepBuilder") @@
  [username |-> username, password |-> password, image |-> image, tag |-> tag]

parse_docker_image(input) ==
  IF contains(input, "@")
  THEN LET parts == split(input, "@")
           user_and_pass == split(parts[1], ":")
           image_and_tag == parts[2]
       IN IF Len(user_and_pass) < 2 THEN Err("Provider with @ must be in the form user:pass@image:tag")
          ELSE Ok(DockerConnectionInfo_new(Some(user_and_pass[1]), Some(user_and_pass[2]),
                                           take_while_not(image_and_tag, ":"),
                                           Some(seq_last(split(image_and_tag, ":")))))
  ELSE Ok(DockerConnectionInfo_new(None, None,
                                   IF contains(input, ":") THEN take_while_not(input, ":") ELSE input,
                                   IF contains(input, ":") THEN Some(seq_last(split(input, ":")))
                                   ELSE None))

DockerStepProvider_from_str(raw) ==
  LET input == str_to_lowercase(raw) IN
  IF ends_with(input, LIT.DOCKERFILE)
  THEN LET stripped == strip_suffix(unwrap_or(strip_prefix(input, LIT.FILE), <<>>), LIT.DOCKERFILE)
       IN IF stripped = None THEN Err("Unable to parse plugin provider as a Dockerfile source")
          ELSE LET v == stripped[1]
               IN Ok(Dockerfile(unwrap_or(strip_suffix(unwrap_or(strip_prefix(v, <<"/">>), v), <<"/">>), v)))
  ELSE IF starts_with(input, LIT.HYPI)
  THEN LET r == parse_docker_image(strip_prefix(input, LIT.HYPI)[1])
       IN IF r.tag = "Ok" THEN Ok([variant |-> "DockerImage", info |-> r.val]) ELSE r
  ELSE IF starts_with(input, LIT.REMOTE)
  THEN LET rest == strip_prefix(input, LIT.REMOTE)[1]
           idx == find(rest, ":")
       IN Ok([variant |-> "Remote",
              host |-> SubSeq(rest, 1, unwrap_or(idx, Len(rest))),
              port |-> IF idx = None THEN None ELSE Some(SubSeq(rest, idx[1] + 2, Len(rest)))])
  ELSE IF starts_with(input, LIT.DOCKER)
  THEN LET r == parse_docker_image(strip_prefix(input, LIT.DOCKER)[1])
       IN IF r.tag = "Ok" THEN Ok([variant |-> "DockerImage", info |-> r.val]) ELSE r
  ELSE IF contains(input, ":")
  THEN Ok([variant |-> "Custom", name |-> take_while_not(input, ":"),
           path |-> seq_last(split(input, ":"))])
  ELSE Err("Unsupported step provider")

ParsedDockerStep_set_attr(self, ctx, name, value) ==
  CASE name = ATTR.NAME -> Ok([self EXCEPT !.name = value])
    [] name = ATTR.BEFORE ->
         LET p == ImplicitDockerStepPosition_from_str(value)
         IN IF p.tag = "Ok" THEN Ok([self EXCEPT !.implicit_before_position = Some(p.val)])
            ELSE CtxErr(ctx, HAML_CODE.INVALID_STEP_LOC, EL.STEP)
    [] name = ATTR.AFTER ->
         LET p == ImplicitDockerStepPosition_from_str(value)
         IN IF p.tag = "Ok" THEN Ok([self EXCEPT !.implicit_before_position = Some(p.val)])
            ELSE CtxErr(ctx, HAML_CODE.INVALID_STEP_LOC, EL.STEP)
    [] name = ATTR.PROVIDER ->
         LET p == DockerStepProvider_from_str(chars(value))
         IN IF p.tag = "Ok" THEN Ok([self EXCEPT !.provider = p.val])
            ELSE CtxErr(ctx, HAML_CODE.INVALID_PROVIDER, EL.PROVIDER)
    [] OTHER -> CtxErr(ctx, HAML_CODE.UNKNOWN_ATTR, EL.PROVIDER)

DockerConnectionInfo_set_attr(self, ctx, name, value) ==
  IF name = ATTR.IMAGE
  THEN LET info == parse_docker_image(chars(value))
       IN IF info.tag = "Ok"
          THEN Ok([info.val EXCEPT !.start_pos = self.start_pos, !.end_pos = self.end_pos])
          ELSE CtxErr(ctx, HAML_CODE.INVALID_STEP_LOC, EL.STEP)
  ELSE CtxErr(ctx, HAML_CODE.UNKNOWN_ATTR, EL.PROVIDER)

\* ParsedHypiSchemaElement::set_attr
set_attr(self, ctx, key, value) ==
  CASE self.kind = "ParsedDocument" -> ParsedDocument_set_attr(self, ctx, key, value)
    [] self.kind = "ParsedTable" -> ParsedTable_set_attr(self, ctx, key, value)
    [] self.kind = "Column" -> ParsedColumn_set_attr(self, ctx, key, value)
    [] self.kind = "Apis" -> ParsedApis_set_attr(self, ctx, key, value)
    [] self.kind = "ParsedTables" -> ParsedTables_set_attr(self, ctx, key, value)
    [] self.kind = "ColumnPipeline" -> ParsedColumnPipeline_set_attr(self, ctx, key, value)
    [] self.kind = "ColumnPipelineArgs" -> ParsedColumnPipelineArgs_set_attr(self, ctx, key, value)
    [] self.kind = "ColumnPipelineWrite" -> ParsedColumnPipelineWrite_set_attr(self, ctx, key, value)
    [] self.kind = "ColumnPipelineRead" -> ParsedColumnPipelineRead_set_attr(self, ctx, key, value)
    [] self.kind = "Hypi" -> ParsedHypi_set_attr(self, ctx, key, value)
    [] self.kind = "Mapping" -> ParsedMapping_set_attr(self, ctx, key, value)
    [] self.kind = "ApiGlobalOptions" -> ParsedGlobalOptions_set_attr(self, ctx, key, value)
    [] self.kind = "ApiCoreApi" -> ParsedCoreApiName_set_attr(self, ctx, key, value)
    [] self.kind = "ApiRest" -> ParsedRest_set_attr(self, ctx, key, value)
    [] self.kind = "ApiEndpoint" -> ParsedEndpoint_set_attr(self, ctx, key, value)
    [] self.kind = "ApiGraphQL" -> ParsedGraphQL_set_attr(self, ctx, key, value)
    [] self.kind = "ApiJob" -> ParsedJob_set_attr(self, ctx, key, value)
    [] self.kind = "ApiEndpointResponse" -> ParsedEndpointResponse_set_attr(self, ctx, key, value)
    [] self.kind = "Pipeline" -> ParsedPipeline_set_attr(self, ctx, key, value)
    [] self.kind = "ApiEndpointScript" -> ParsedEndpointScript_set_attr(self, ctx, key, value)
    [] self.kind = "ApiEndpointCall" -> ParsedCall_set_attr(self, ctx, key, value)
    [] self.kind = "ApiEndpointSql" -> ParsedEndpointSql_set_attr(self, ctx, key, value)
    [] self.kind = "ApiEndpointFn" -> ParsedEndpointFn_set_attr(self, ctx, key, value)
    [] self.kind = "DockerStep" -> ParsedDockerStep_set_attr(self, ctx, key, value)
    [] self.kind = "DockerStepBuilder" -> DockerConnectionInfo_set_attr(self, ctx, key, value)
    [] self.kind = "ApiEndpointWebsocket" -> ParsedEndpointWebsocket_set_attr(self, ctx, key, value)
    [] self.kind = "Env" -> ParsedEnv_set_attr(self, ctx, key, value)
    [] self.kind = "Db" -> ParsedDb_set_attr(self, ctx, key, value)
    [] self.kind = "Constraint" -> ParsedConstraint_set_attr(self, ctx, key, value)
    [] self.kind = "ParsedSchema" -> ParsedSchema_set_attr(self, ctx, key, value)
    [] self.kind = "Meta" -> ParsedMeta_set_attr(self, ctx, key, value)
    [] self.kind = "Pair" -> ParsedKeyValuePair_set_attr(self, ctx, key, value)

(***************************************************************************)
(* append_child, per node kind: h is the heap, p the parent and c the      *)
(* child (both NodePtr); the result is Ok(h') or Err(e).                   *)
(***************************************************************************)
push(h, p, field, v) == Ok([h EXCEPT ![p][field] = Append(@, v)])
assign(h, p, field, v) == Ok([h EXCEPT ![p][field] = v])

ParsedDocument_append_child(h, p, c, ctx) ==
  CASE h[c].kind = "Apis" -> assign(h, p, "apis", Some(c))
    [] h[c].kind = "Env" -> push(h, p, "env", c)
    [] h[c].kind = "DockerStepBuilder" -> push(h, p, "step_builders", c)
    [] h[c].kind = "Db" -> push(h, p, "databases", c)
    [] h[c].kind = "Meta" -> assign(h, p, "meta", Some(c))
    [] OTHER -> CtxErr(ctx, HAML_CODE.UNSUPPORTED_CHILD, EL.DOCUMENT)

\* the hypi slot is overwritten: no repeat check
ParsedTable_append_child(h, p, c, ctx) ==
  CASE h[c].kind = "Column" -> push(h, p, "columns", c)
    [] h[c].kind = "Hypi" -> assign(h, p, "hypi", Some(c))
    [] h[c].kind = "Constraint" -> push(h, p, "constraints", c)
    [] OTHER -> CtxErr(ctx, HAML_CODE.UNSUPPORTED_CHILD, EL.TABLE)

ParsedColumn_append_child(h, p, c, ctx) ==
  IF h[c].kind = "ColumnPipeline"
  THEN IF h[p].pipeline # None THEN CtxErr(ctx, HAML_CODE.CANNOT_REPEAT, EL.COLUMN)
       ELSE assign(h, p, "pipeline", Some(c))
  ELSE CtxErr(ctx, HAML_CODE.UNSUPPORTED_CHILD, EL.COLUMN)

\* slots that take the latest child
ParsedColumnPipeline_append_child_overwrite(h, p, c, ctx) ==
  CASE h[c].kind = "ColumnPipelineArgs" -> assign(h, p, "args", Some(c))
    [] h[c].kind = "ColumnPipelineWrite" -> assign(h, p, "write", Some(c))
    [] h[c].kind = "ColumnPipelineRead" -> assign(h, p, "read", Some(c))
    [] OTHER -> CtxErr(ctx, HAML_CODE.UNSUPPORTED_CHILD, EL.COLUMN_PIPELINE)

ParsedColumnPipeline_append_child(h, p, c, ctx) ==
  CASE h[c].kind = "ColumnPipelineArgs" ->
         IF h[p].args = None THEN assign(h, p, "args", Some(c))
         ELSE CtxErr(ctx, HAML_CODE.CANNOT_REPEAT, EL.PIPELINE_ARGS)
    [] h[c].kind = "ColumnPipelineWrite" ->
         IF h[p].write = None THEN assign(h, p, "write", Some(c))
         ELSE CtxErr(ctx, HAML_CODE.CANNOT_REPEAT, EL.PIPELINE_ARGS)
    [] h[c].kind = "ColumnPipelineRead" ->
         IF h[p].read = None THEN assign(h, p, "read", Some(c))
         ELSE CtxErr(ctx, HAML_CODE.CANNOT_REPEAT, EL.PIPELINE_ARGS)
    [] OTHER -> CtxErr(ctx, HAML_CODE.UNSUPPORTED_CHILD, EL.COLUMN_PIPELINE)

ParsedColumnPipelineArgs_append_child(h, p, c, ctx) ==
  CtxErr(ctx, HAML_CODE.UNSUPPORTED_CHILD, EL.PIPELINE_ARGS)

ParsedColumnPipelineWrite_append_child(h, p, c, ctx) ==
  CtxErr(ctx, HAML_CODE.UNSUPPORTED_CHILD, EL.PIPELINE_WRITE)

ParsedColumnPipelineRead_append_child(h, p, c, ctx) ==
  CtxErr(ctx, HAML_CODE.UNKNOWN_ATTR, EL.PIPELINE_READ)

\* implemented, but ParsedHypiSchemaElement::append_child never calls it
DockerConnectionInfo_append_child(h, p, c, ctx) ==
  CtxErr(ctx, HAML_CODE.UNSUPPORTED_CHILD, EL.PROVIDER)

ParsedCoreApiName_append_child(h, p, c, ctx) ==
  CtxErr(ctx, HAML_CODE.UNSUPPORTED_CHILD, EL.GLOBAL_OPTIONS)

ParsedEndpointWebsocket_append_child(h, p, c, ctx) ==
  CtxErr(ctx, HAML_CODE.UNSUPPORTED_CHILD, EL.WEBSOCKET)

ParsedGraphQL_append_child(h, p, c, ctx) ==
  CtxErr(ctx, HAML_CODE.UNSUPPORTED_CHILD, EL.GRAPHQL)

ParsedJob_append_child(h, p, c, ctx) ==
  CtxErr(ctx, HAML_CODE.UNSUPPORTED_CHILD, EL.JOB)

ParsedEndpointScript_append_child(h, p, c, ctx) ==
  CtxErr(ctx, HAML_CODE.UNSUPPORTED_CHILD, EL.JOB)

ParsedKeyValuePair_append_child(h, p, c, ctx) ==
  CtxErr(ctx, HAML_CODE.UNSUPPORTED_CHILD, EL.PAIR)

ParsedEnv_append_child(h, p, c, ctx) ==
  CtxErr(ctx, HAML_CODE.UNSUPPORTED_CHILD, EL.PIPELINE)

ParsedDockerStep_append_child(h, p, c, ctx) ==
  IF h[c].kind = "Mapping" THEN push(h, p, "mappings", c)
  ELSE CtxErr(ctx, HAML_CODE.UNSUPPORTED_CHILD, EL.PROVIDER)

ParsedHypi_append_child(h, p, c, ctx) ==
  IF h[c].kind = "Mapping" THEN push(h, p, "mappings", c)
  ELSE CtxErr(ctx, HAML_CODE.UNSUPPORTED_CHILD, EL.HYPI)

ParsedMapping_append_child(h, p, c, ctx) ==
  IF h[c].kind = "Mapping" THEN push(h, p, "children", c)
  ELSE CtxErr(ctx, HAML_CODE.UNSUPPORTED_CHILD, EL.MAPPING)

ParsedEndpointResponse_append_child(h, p, c, ctx) ==
  IF h[c].kind = "Mapping" THEN push(h, p, "mappings", c)
  ELSE CtxErr(ctx, HAML_CODE.UNSUPPORTED_CHILD, EL.ENDPOINT)

ParsedEndpointSql_append_child(h, p, c, ctx) ==
  IF h[c].kind = "Mapping" THEN push(h, p, "mappings", c)
  ELSE CtxErr(ctx, HAML_CODE.UNSUPPORTED_CHILD, EL.SQL)

ParsedEndpointFn_append_child(h, p, c, ctx) ==
  IF h[c].kind = "Mapping" THEN push(h, p, "mappings", c)
  ELSE CtxErr(ctx, HAML_CODE.UNSUPPORTED_CHILD, EL.FN)

ParsedCall_append_child(h, p, c, ctx) ==
  IF h[c].kind = "Mapping" THEN push(h, p, "mappings", c)
  ELSE CtxErr(ctx, HAML_CODE.UNSUPPORTED_CHILD, EL.CALL)

ParsedConstraint_append_child(h, p, c, ctx) ==
  IF h[c].kind = "Mapping" THEN push(h, p, "mappings", c)
  ELSE CtxErr(ctx, HAML_CODE.UNSUPPORTED_CHILD, EL.SCHEMA)

ParsedGlobalOptions_append_child(h, p, c, ctx) ==
  CASE h[c].kind = "DockerStep" -> push(h, p, "implicit_steps", c)
    [] h[c].kind = "ApiCoreApi" ->
         IF to_lowercase(h[c].value) \in DOMAIN CORE_APIS
         THEN push(h, p, "core_apis", CORE_APIS[to_lowercase(h[c].value)])
         ELSE CtxErr(ctx, HAML_CODE.UNSUPPORTED_CHILD, EL.CORE_API)
    [] OTHER -> CtxErr(ctx, HAML_CODE.UNSUPPORTED_CHILD, EL.CORE_API)

ParsedApis_append_child(h, p, c, ctx) ==
  CASE h[c].kind = "ApiGlobalOptions" -> assign(h, p, "global_options", Some(c))
    [] h[c].kind = "ApiRest" -> assign(h, p, "rest", Some(c))
    [] h[c].kind = "Pipeline" -> push(h, p, "pipelines", c)
    [] h[c].kind = "ApiGraphQL" -> assign(h, p, "graphql", Some(c))
    [] h[c].kind = "ApiJob" -> push(h, p, "jobs", c)
    [] OTHER -> CtxErr(ctx, HAML_CODE.UNSUPPORTED_CHILD, EL.APIS)

ParsedTables_append_child(h, p, c, ctx) ==
  IF h[c].kind = "ParsedTable" THEN push(h, p, "items", c)
  ELSE CtxErr(ctx, HAML_CODE.UNSUPPORTED_CHILD, EL.TABLES)

ParsedRest_append_child(h, p, c, ctx) ==
  IF h[c].kind = "ApiEndpoint" THEN push(h, p, "endpoints", c)
  ELSE CtxErr(ctx, HAML_CODE.UNSUPPORTED_CHILD, EL.REST)

ParsedEndpoint_append_child(h, p, c, ctx) ==
  CASE h[c].kind = "ApiEndpointResponse" -> push(h, p, "responses", c)
    [] h[c].kind = "ApiEndpointWebsocket" -> push(h, p, "websockets", c)
    [] OTHER -> CtxErr(ctx, HAML_CODE.UNSUPPORTED_CHILD, EL.ENDPOINT)

ParsedStep(variant, ptr) == [variant |-> variant, ptr |-> ptr]

ParsedPipeline_append_child(h, p, c, ctx) ==
  CASE h[c].kind = "DockerStep" -> push(h, p, "docker_steps", c)
    [] h[c].kind = "ApiEndpointFn" -> push(h, p, "steps", ParsedStep("Fn", c))
    [] h[c].kind = "ApiEndpointSql" -> push(h, p, "steps", ParsedStep("Sql", c))
    [] h[c].kind = "ApiEndpointCall" -> push(h, p, "steps", ParsedStep("Call", c))
    [] h[c].kind = "ApiEndpointScript" -> push(h, p, "steps", ParsedStep("Script", c))
    [] h[c].kind = "Pipeline" -> push(h, p, "steps", ParsedStep("Pipeline", c))
    [] OTHER -> CtxErr(ctx, HAML_CODE.UNSUPPORTED_CHILD, EL.PIPELINE)

ParsedMeta_append_child(h, p, c, ctx) ==
  IF h[c].kind = "Pair" THEN push(h, p, "key_value_pairs", c)
  ELSE CtxErr(ctx, HAML_CODE.UNSUPPORTED_CHILD, EL.META)

\* self.tables becomes the vector of the <tables> child once one is assigned
ParsedSchema_append_child(h, p, c, ctx) ==
  CASE h[c].kind = "ParsedTables" ->
         Ok([h EXCEPT ![p].tables_ptr = Some(c), ![p].tables = <<>>])
    [] h[c].kind = "ParsedTable" ->
         IF h[p].tables_ptr = None THEN push(h, p, "tables", c)
         ELSE push(h, h[p].tables_ptr[1], "items", c)
    [] OTHER -> CtxErr(ctx, HAML_CODE.UNSUPPORTED_CHILD, EL.SCHEMA)

ParsedDb_append_child(h, p, c, ctx) ==
  IF h[c].kind = "ParsedSchema" THEN push(h, p, "schemas", c)
  ELSE CtxErr(ctx, HAML_CODE.UNSUPPORTED_CHILD, EL.PIPELINE)

\* ParsedHypiSchemaElement::append_child: a step-builder accepts any child
append_child(h, p, c, ctx) ==
  CASE h[p].kind = "ParsedDocument" -> ParsedDocument_append_child(h, p, c, ctx)
    [] h[p].kind = "ParsedTables" -> ParsedTables_append_child(h, p, c, ctx)
    [] h[p].kind = "ParsedTable" -> ParsedTable_append_child(h, p, c, ctx)
    [] h[p].kind = "Column" -> ParsedColumn_append_child(h, p, c, ctx)
    [] h[p].kind = "Apis" -> ParsedApis_append_child(h, p, c, ctx)
    [] h[p].kind = "ColumnPipeline" -> ParsedColumnPipeline_append_child(h, p, c, ctx)
    [] h[p].kind = "ColumnPipelineArgs" -> ParsedColumnPipelineArgs_append_child(h, p, c, ctx)
    [] h[p].kind = "ColumnPipelineWrite" -> ParsedColumnPipelineWrite_append_child(h, p, c, ctx)
    [] h[p].kind = "ColumnPipelineRead" -> ParsedColumnPipelineRead_append_child(h, p, c, ctx)
    [] h[p].kind = "Hypi" -> ParsedHypi_append_child(h, p, c, ctx)
    [] h[p].kind = "Mapping" -> ParsedMapping_append_child(h, p, c, ctx)
    [] h[p].kind = "ApiGlobalOptions" -> ParsedGlobalOptions_append_child(h, p, c, ctx)
    [] h[p].kind = "ApiCoreApi" -> ParsedCoreApiName_append_child(h, p, c, ctx)
    [] h[p].kind = "ApiRest" -> ParsedRest_append_child(h, p, c, ctx)
    [] h[p].kind = "ApiEndpoint" -> ParsedEndpoint_append_child(h, p, c, ctx)
    [] h[p].kind = "DockerStep" -> ParsedDockerStep_append_child(h, p, c, ctx)
    [] h[p].kind = "DockerStepBuilder" -> Ok(h)
    [] h[p].kind = "ApiEndpointScript" -> ParsedEndpointScript_append_child(h, p, c, ctx)
    [] h[p].kind = "ApiEndpointCall" -> ParsedCall_append_child(h, p, c, ctx)
    [] h[p].kind = "Pipeline" -> ParsedPipeline_append_child(h, p, c, ctx)
    [] h[p].kind = "ApiEndpointResponse" -> ParsedEndpointResponse_append_child(h, p, c, ctx)
    [] h[p].kind = "ApiEndpointSql" -> ParsedEndpointSql_append_child(h, p, c, ctx)
    [] h[p].kind = "ApiEndpointFn" -> ParsedEndpointFn_append_child(h, p, c, ctx)
    [] h[p].kind = "ApiEndpointWebsocket" -> ParsedEndpointWebsocket_append_child(h, p, c, ctx)
    [] h[p].kind = "ApiGraphQL" -> ParsedGraphQL_append_child(h, p, c, ctx)
    [] h[p].kind = "ApiJob" -> ParsedJob_append_child(h, p, c, ctx)
    [] h[p].kind = "Env" -> ParsedEnv_append_child(h, p, c, ctx)
    [] h[p].kind = "Db" -> ParsedDb_append_child(h, p, c, ctx)
    [] h[p].kind = "Constraint" -> ParsedConstraint_append_child(h, p, c, ctx)
    [] h[p].kind = "ParsedSchema" -> ParsedSchema_append_child(h, p, c, ctx)
    [] h[p].kind = "Meta" -> ParsedMeta_append_child(h, p, c, ctx)
    [] h[p].kind = "Pair" -> ParsedKeyValuePair_append_child(h, p, c, ctx)

\* ParsedHypiSchemaElement::set_str_body: only response and sql override the
\* default of the trait
\* text chunks that are joined to what the element already holds
set_str_body_concat(self, ctx, value) ==
  CASE self.kind = "ApiEndpointResponse" ->
         Ok([self EXCEPT !.body = IF @ = None THEN Some(value) ELSE Some(@[1] \o value)])
    [] self.kind = "ApiEndpointSql" -> Ok([self EXCEPT !.sql = @ \o value])
    [] OTHER -> Ok(self)

set_str_body(self, ctx, value) ==
  CASE self.kind = "ApiEndpointResponse" -> Ok([self EXCEPT !.body = Some(value)])
    [] self.kind = "ApiEndpointSql" -> Ok([self EXCEPT !.sql = value])
    [] OTHER -> Ok(self)

ParsedDb_validate_lenient(self, ctx) ==
  IF trim_is_empty(self.db_name) THEN CtxErr(ctx, HAML_CODE.UNSUPPORTED_CHILD, EL.SQL)
  ELSE Ok(self)

ParsedDb_validate(self, ctx) ==
  IF trim_is_empty(self.db_name) THEN CtxErr(ctx, HAML_CODE.UNSUPPORTED_CHILD, EL.SQL)
  ELSE IF trim_is_empty(self.host) THEN CtxErr(ctx, HAML_CODE.UNSUPPORTED_CHILD, EL.SQL)
  ELSE Ok(self)

\* ParsedHypiSchemaElement::validate
validate(self, ctx) ==
  IF self.kind = "Db" THEN ParsedDb_validate(self, ctx) ELSE Ok(self)

(***************************************************************************)
(* The import splice: what set_attr does with the Ok(node) returned by     *)
(* ParsedDocument::from_str.  self is the importing node, root the root of *)
(* the imported file; the result is Ok([self, heap]) or Err(e).            *)
(***************************************************************************)
\* a splice that takes the root of the imported file whatever its kind
ParsedTable_import_coerce(self, h, root, ctx) ==
  Ok([self |-> h[root], heap |-> [h EXCEPT ![root] = ParsedTable_default]])

ParsedTable_import(self, h, root, ctx) ==
  IF h[root].kind = "ParsedTable"
  THEN Ok([self |-> h[root], heap |-> [h EXCEPT ![root] = ParsedTable_default]])
  ELSE CtxErr(ctx, HAML_CODE.MISSING_IMPORT, EL.ENDPOINT)

ParsedEndpoint_import(self, h, root, ctx) ==
  IF h[root].kind = "ApiEndpoint"
  THEN Ok([self |-> h[root], heap |-> [h EXCEPT ![root] = ParsedEndpoint_default]])
  ELSE CtxErr(ctx, HAML_CODE.MISSING_IMPORT, EL.ENDPOINT)

ParsedPipeline_import(self, h, root, ctx) ==
  IF h[root].kind = "Pipeline"
  THEN Ok([self |-> h[root], heap |-> [h EXCEPT ![root] = ParsedPipeline_default]])
  ELSE CtxErr(ctx, HAML_CODE.MISSING_IMPORT, EL.PIPELINE)

import(self, h, root, ctx) ==
  CASE self.kind = "ParsedTable" -> ParsedTable_import(self, h, root, ctx)
    [] self.kind = "ApiEndpoint" -> ParsedEndpoint_import(self, h, root, ctx)
    [] self.kind = "Pipeline" -> ParsedPipeline_import(self, h, root, ctx)

(***************************************************************************)
(* The virtual file system and the documents fed to the parser.            *)
(***************************************************************************)
VfsFiles == {"schema.xml", "a.xml"}
RootFiles == {"schema.xml", "missing.xml"}

read_schema_file(file_name) == IF file_name \in VfsFiles THEN Ok(file_name) ELSE Err("NotFound")

Attr(n, v) == [name |-> n, value |-> v]

\* the element names and attribute lists of the start-elements
ElementNames ==
  {EL.DOCUMENT, EL.DB, EL.TABLE, EL.COLUMN, EL.PIPELINE, EL.HYPI, EL.ENDPOINT, EL.SCRIPT,
   EL.SQL, "bogus"}

AttributeLists ==
  {<<>>,
   <<Attr(ATTR.NAME, "n1")>>,
   <<Attr(ATTR.IMPORT, "a.xml")>>,
   <<Attr(ATTR.IMPORT, "missing.xml")>>,
   <<Attr(ATTR.IMPORT, "a.xml"), Attr(ATTR.NAME, "n1")>>,
   <<Attr(ATTR.NAME, "n1"), Attr(ATTR.IMPORT, "a.xml")>>,
   <<Attr(ATTR.IMPORT, "a.xml"), Attr(ATTR.LABEL, "l1")>>,
   <<Attr(ATTR.LABEL, "l1"), Attr(ATTR.IMPORT, "a.xml")>>,
   <<Attr("schemaLocation", "s"), Attr(ATTR.IMPORT, "a.xml")>>,
   <<Attr(ATTR.DB_NAME, "d"), Attr(ATTR.HOST, "h")>>,
   <<Attr(ATTR.DB_NAME, "d"), Attr(ATTR.HOST, " ")>>,
   <<Attr("bogus", "x")>>}

Texts == {"SELECT 1"}

\* every failure of the tokenizer reported as a syntax error
ErrorKinds_all_syntax ==
  [kind \in {"Syntax", "Io", "Utf8", "UnexpectedEof"} |-> HAML_CODE.XML_SYNTAX]

ErrorKinds ==
  ("Syntax" :> HAML_CODE.XML_SYNTAX) @@ ("Io" :> HAML_CODE.XML_IO)
  @@ ("Utf8" :> HAML_CODE.XML_UTF8) @@ ("UnexpectedEof" :> HAML_CODE.XML_EOF)

(***************************************************************************)
(* ParsedDocument::from_str as a state machine.  A frame is one activation *)
(* of from_str: its file, root, open-element stack q, child_index stack,   *)
(* the events the tokenizer has delivered (row) and, while the activation  *)
(* waits in set_attr for an imported file, the node under construction.    *)
(***************************************************************************)
Frame_new(file_name) ==
  [file_name |-> file_name, root |-> None, q |-> <<>>, child_index |-> <<>>, row |-> 0,
   texts |-> 0, pending |-> None]

\* parser.position(): the tokenizer is one row further after every event
position(f) == [row |-> f.row, column |-> 0]

NoCtx == [file_name |-> "", attributes |-> <<>>, line_number |-> 0, column |-> 0]

\* what `last` records: the event, its ParseCtx, the node it worked on and what
\* the handlers it called returned
Event(op, name, ctx, self) ==
  [op |-> op, name |-> name, ctx |-> ctx, self |-> self, out |-> [tag |-> "Ok"]]

top == frames[Len(frames)]

Running == result.tag = "None" /\ frames # <<>>

\* nodes created but not yet behind an Rc: one per activation waiting for an import
UnderConstruction == Cardinality({i \in 1..Len(frames) : frames[i].pending # None})

\* the for loop over ctx.attributes, from the i-th on
RECURSIVE set_attrs(_, _, _)
set_attrs(node, ctx, i) ==
  IF i > Len(ctx.attributes) THEN Ok(node)
  ELSE IF ctx.attributes[i].name \in IGNORED_ATTRS THEN set_attrs(node, ctx, i + 1)
  ELSE LET r == set_attr(node, ctx, ctx.attributes[i].name, ctx.attributes[i].value)
       IN CASE r.tag = "Ok" -> set_attrs(r.val, ctx, i + 1)
            [] r.tag = "Err" -> [tag |-> "Err", err |-> r.err, self |-> node]
            [] r.tag = "Call" -> [tag |-> "Call", file |-> r.file, self |-> node, i |-> i]

\* the error is recorded, the parse goes on
Abort_recover(e, ev) ==
  /\ result' = result
  /\ heap' = heap
  /\ frames' = frames
  /\ parent_of' = parent_of
  /\ last' = [ev EXCEPT !.out = Err(e)]

\* an error leaves from_str, and every from_str that waits for it, through `?`:
\* the nodes built so far are dropped
Abort(e, ev) ==
  /\ result' = Err(e)
  /\ heap' = <<>>
  /\ frames' = <<>>
  /\ parent_of' = <<>>
  /\ last' = [ev EXCEPT !.out = Err(e)]

\* every start-element takes the place of the root
Attach_last_root(h, fs, f, node, ctx, ev) ==
  LET id == Len(h) + 1
      h1 == Append(h, node)
      old == IF f.q = <<>> THEN None ELSE Some(f.q[Len(f.q)])
      r == IF f.root = None \/ old = None THEN Ok(h1) ELSE append_child(h1, old[1], id, ctx)
  IN IF r.tag = "Err" THEN Abort(r.err, [ev EXCEPT !.self = Some(node)])
     ELSE /\ heap' = r.val
          /\ frames' = fs \o <<[f EXCEPT !.root = Some(id), !.q = Append(@, id)]>>
          /\ parent_of' = Append(parent_of, IF old = None THEN 0 ELSE old[1])
          /\ last' = [ev EXCEPT !.self = Some(node)]
          /\ UNCHANGED result

\* Rc::new(RefCell::new(node)), root or q.push, and the parent's append_child
Attach(h, fs, f, node, ctx, ev) ==
  LET id == Len(h) + 1
      h1 == Append(h, node)
      old == IF f.q = <<>> THEN None ELSE Some(f.q[Len(f.q)])
      r == IF f.root = None \/ old = None THEN Ok(h1) ELSE append_child(h1, old[1], id, ctx)
  IN IF r.tag = "Err" THEN Abort(r.err, [ev EXCEPT !.self = Some(node)])
     ELSE /\ heap' = r.val
          /\ frames' = fs \o <<[f EXCEPT !.root = IF @ = None THEN Some(id) ELSE @,
                                         !.q = Append(@, id)]>>
          /\ parent_of' = Append(parent_of, IF old = None THEN 0 ELSE old[1])
          /\ last' = [ev EXCEPT !.self = Some(node)]
          /\ UNCHANGED result

\* the rest of a start-element once set_attrs has returned r
\* an import of a file that is being parsed is refused
Proceed_cycle_guard(h, fs, f, r, ctx, ev) ==
  CASE r.tag = "Ok" -> Attach(h, fs, f, r.val, ctx, ev) /\ UNCHANGED reads
    [] r.tag = "Err" -> Abort(r.err, [ev EXCEPT !.self = Some(r.self)]) /\ UNCHANGED reads
    [] r.tag = "Call" ->
         /\ Len(fs) + 1 < MaxFrames
         /\ reads' = Append(reads, r.file)
         /\ IF \/ read_schema_file(r.file).tag = "Err"
               \/ r.file = f.file_name
               \/ \E k \in 1..Len(fs) : fs[k].file_name = r.file
            THEN Abort(ParseErr(r.file, 0, 0, HAML_CODE.MISSING_IMPORT, EL.ENDPOINT),
                       [ev EXCEPT !.self = Some(r.self)])
            ELSE /\ frames' = fs \o <<[f EXCEPT !.pending =
                                          Some([self |-> r.self, ctx |-> ctx, i |-> r.i])]>>
                               \o <<Frame_new(r.file)>>
                 /\ heap' = h
                 /\ last' = [ev EXCEPT !.self = Some(r.self)]
                 /\ UNCHANGED <<result, parent_of>>

Proceed(h, fs, f, r, ctx, ev) ==
  CASE r.tag = "Ok" -> Attach(h, fs, f, r.val, ctx, ev) /\ UNCHANGED reads
    [] r.tag = "Err" -> Abort(r.err, [ev EXCEPT !.self = Some(r.self)]) /\ UNCHANGED reads
    [] r.tag = "Call" ->
         /\ Len(fs) + 1 < MaxFrames
         /\ reads' = Append(reads, r.file)
         /\ IF read_schema_file(r.file).tag = "Err"
            THEN Abort(ParseErr(r.file, 0, 0, HAML_CODE.MISSING_IMPORT, EL.ENDPOINT),
                       [ev EXCEPT !.self = Some(r.self)])
            ELSE /\ frames' = fs \o <<[f EXCEPT !.pending =
                                          Some([self |-> r.self, ctx |-> ctx, i |-> r.i])]>>
                               \o <<Frame_new(r.file)>>
                 /\ heap' = h
                 /\ last' = [ev EXCEPT !.self = Some(r.self)]
                 /\ UNCHANGED <<result, parent_of>>

\* the call of ParsedDocument::from_str by the user of the library
from_str(file_name) ==
  /\ UNCHANGED log
  /\ result.tag = "None"
  /\ frames = <<>>
  /\ reads = <<>>
  /\ reads' = <<file_name>>
  /\ IF read_schema_file(file_name).tag = "Err"
     THEN Abort(ParseErr(file_name, 0, 0, HAML_CODE.MISSING_IMPORT, EL.ENDPOINT),
                Event("from_str", file_name, NoCtx, None))
     ELSE /\ frames' = <<Frame_new(file_name)>>
          /\ last' = Event("from_str", file_name, NoCtx, None)
          /\ UNCHANGED <<heap, result, parent_of>>

\* the node is pushed and handed to its parent before its attributes are read
StartElement_attach_first(name, attributes) ==
  /\ UNCHANGED log
  /\ Running
  /\ top.root = None \/ top.q # <<>>
  /\ Len(heap) + UnderConstruction < MaxNodes
  /\ LET f == [top EXCEPT !.child_index = Append(@, Len(@)), !.row = @ + 1]
         ctx == ParseCtx_new(top.file_name, position(top), attributes)
         parent == IF top.q = <<>> THEN None ELSE Some(name_of(heap[top.q[Len(top.q)]]))
         n == new_node(parent, ctx, name)
         ev == Event("StartElement", name, ctx, None)
     IN IF n.tag = "Err" THEN Abort(n.err, ev) /\ UNCHANGED reads
        ELSE Proceed(heap, SubSeq(frames, 1, Len(frames) - 1), f,
                     Ok(set_location(n.val, ctx.line_number, ctx.column,
                                     Len(top.child_index), top.file_name, TRUE)),
                     ctx, ev)

StartElement(name, attributes) ==
  /\ UNCHANGED log
  /\ Running
  /\ top.root = None \/ top.q # <<>>
  /\ Len(heap) + UnderConstruction < MaxNodes
  /\ LET f == [top EXCEPT !.child_index = Append(@, Len(@)), !.row = @ + 1]
         ctx == ParseCtx_new(top.file_name, position(top), attributes)
         parent == IF top.q = <<>> THEN None ELSE Some(name_of(heap[top.q[Len(top.q)]]))
         n == new_node(parent, ctx, name)
         ev == Event("StartElement", name, ctx, None)
     IN IF n.tag = "Err" THEN Abort(n.err, ev) /\ UNCHANGED reads
        ELSE Proceed(heap, SubSeq(frames, 1, Len(frames) - 1), f,
                     set_attrs(set_location(n.val, ctx.line_number, ctx.column,
                                            Len(top.child_index), top.file_name, TRUE),
                               ctx, 1),
                     ctx, ev)

Characters(chars_) ==
  /\ UNCHANGED log
  /\ Running
  /\ top.q # <<>>
  /\ top.texts < MaxText
  /\ LET ctx == ParseCtx_new(top.file_name, position(top), <<>>)
         current == top.q[Len(top.q)]
         r == set_str_body(heap[current], ctx, chars_)
         ev == Event("Characters", chars_, ctx, Some(heap[current]))
     IN IF r.tag = "Err" THEN Abort(r.err, ev)
        ELSE /\ heap' = [heap EXCEPT ![current] = r.val]
             /\ frames' = [frames EXCEPT ![Len(frames)].row = @ + 1,
                                         ![Len(frames)].texts = @ + 1]
             /\ last' = ev
             /\ UNCHANGED <<result, parent_of>>
  /\ UNCHANGED reads

EndElement ==
  /\ UNCHANGED log
  /\ Running
  /\ top.q # <<>>
  /\ LET ctx == ParseCtx_new(top.file_name, position(top), <<>>)
         current == top.q[Len(top.q)]
         node == set_location(heap[current], ctx.line_number, ctx.column,
                              top.child_index[Len(top.child_index)], top.file_name, FALSE)
         r == validate(node, ctx)
         ev == Event("EndElement", name_of(node), ctx, Some(node))
     IN IF r.tag = "Err" THEN Abort(r.err, ev)
        ELSE /\ heap' = [heap EXCEPT ![current] = node]
             /\ frames' = [frames EXCEPT
                             ![Len(frames)].row = @ + 1,
                             ![Len(frames)].q = SubSeq(@, 1, Len(@) - 1),
                             ![Len(frames)].child_index = SubSeq(@, 1, Len(@) - 1)]
             /\ last' = ev
             /\ UNCHANGED <<result, parent_of>>
  /\ UNCHANGED reads

\* break, the return of from_str and, for an imported file, the rest of the
\* set_attr and of the start-element that asked for it
EndDocument ==
  /\ UNCHANGED log
  /\ Running
  /\ top.q = <<>>
  /\ LET ev == Event("EndDocument", top.file_name, NoCtx, None) IN
     IF top.root = None
     THEN /\ Abort(ParseErr(top.file_name, position(top).row, position(top).column,
                            HAML_CODE.NO_ROOT, ""), ev)
          /\ UNCHANGED reads
     ELSE IF Len(frames) = 1
     THEN /\ result' = Ok(top.root[1])
          /\ frames' = <<>>
          /\ last' = ev
          /\ UNCHANGED <<heap, reads, parent_of>>
     ELSE LET g == frames[Len(frames) - 1]
              p == g.pending[1]
              r == import(p.self, heap, top.root[1], p.ctx)
              iev == Event("import", top.file_name, p.ctx, Some(p.self))
          IN IF r.tag = "Err" THEN Abort(r.err, iev) /\ UNCHANGED reads
             ELSE Proceed(r.val.heap, SubSeq(frames, 1, Len(frames) - 2),
                          [g EXCEPT !.pending = None],
                          set_attrs(r.val.self, p.ctx, p.i + 1), p.ctx, iev)

TokenizerError(kind) ==
  /\ UNCHANGED log
  /\ Running
  /\ Abort(ParseErr(top.file_name, position(top).row, position(top).column,
                    ErrorKinds[kind], "<>"),
           Event("Err", kind, NoCtx, None))
  /\ UNCHANGED reads

NoCall == Event("none", "", NoCtx, None)

Init ==
  /\ heap = <<>>
  /\ frames = <<>>
  /\ result = [tag |-> "None"]
  /\ reads = <<>>
  /\ last = NoCall
  /\ parent_of = <<>>
  /\ log = <<>>

Next ==
  \/ \E file_name \in RootFiles : from_str(file_name)
  \/ \E name \in ElementNames, attributes \in AttributeLists : StartElement(name, attributes)
  \/ \E chars_ \in Texts : Characters(chars_)
  \/ EndElement
  \/ EndDocument
  \/ \E kind \in DOMAIN ErrorKinds : TokenizerError(kind)

Spec == Init /\ [][Next]_vars

(***************************************************************************)
(* Properties of the tree builder and of the import protocol (Spec).       *)
(***************************************************************************)
HasImport(attributes) ==
  \E i \in 1..Len(attributes) : to_lowercase(attributes[i].name) = ATTR.IMPORT

ImportWithOthers(ev, names) ==
  /\ ev.op = "StartElement"
  /\ ev.name \in names
  /\ HasImport(ev.ctx.attributes)
  /\ Len(ev.ctx.attributes) > 1

ImportReturns ==
  /\ Running
  /\ Len(frames) > 1
  /\ top.q = <<>>
  /\ top.root # None
  /\ last'.op = "import"

\* C4: when the root of the imported file is of another kind than the
\* importing table, endpoint or pipeline, the parse fails with
\* haml_missing_import and the importing node is left as it was.
C4_ImportKindMismatch ==
  [][ImportReturns /\ heap[top.root[1]].kind # frames[Len(frames) - 1].pending[1].self.kind
       => /\ result'.tag = "Err"
          /\ result'.err.code = HAML_CODE.MISSING_IMPORT
          /\ result'.err.file = frames[Len(frames) - 1].file_name
          /\ last'.self = Some(frames[Len(frames) - 1].pending[1].self)
          /\ heap' = <<>>]_vars

C4_Witness ==
  /\ last.op = "import"
  /\ result.tag = "Err"
  /\ result.err.code = HAML_CODE.MISSING_IMPORT
  /\ last.self # None
  /\ last.self[1].kind = "ParsedTable"
  /\ last.self[1].columns = <<>>

\* C5: after a successful import the importing node, the last one attached,
\* has the data of the imported root, and its start Location is still the
\* one of its own start-element in the importing file.
C5_ImportKeepsStartLocation ==
  last.op = "import" /\ result.tag # "Err"
    => /\ heap[Len(heap)].start_pos.file_name = last.ctx.file_name
       /\ heap[Len(heap)].start_pos.line = last.ctx.line_number
       /\ heap[Len(heap)].start_pos.column = last.ctx.column

\* the 0-based ordinal of node i among the children of its parent element
Ordinal(i) == Cardinality({j \in 1..(i - 1) : parent_of[j] = parent_of[i]})

\* C6: after a successful parse the child_index in the start Location of
\* every child is its 0-based ordinal among its siblings.
C6_ChildIndexIsOrdinal ==
  result.tag = "Ok"
    => \A i \in 1..Len(heap) :
         parent_of[i] # 0 /\ "start_pos" \in DOMAIN heap[i]
           => heap[i].start_pos.child_index = Ordinal(i)

\* C7: no event is handled after a failure, and the step in which new_node,
\* set_attr, append_child, set_str_body or validate fails makes that error
\* the result of the parse, ends every activation of from_str, the
\* importing ones included, and returns no tree.
C7_FirstFailureEndsParse ==
  [][/\ result.tag # "Err"
     /\ last'.out.tag = "Err"
          => result' = last'.out /\ frames' = <<>> /\ heap' = <<>>]_vars

\* an unknown attribute in an imported file has ended the importing parse
C7_Witness ==
  /\ result.tag = "Err"
  /\ result = last.out
  /\ last.op = "StartElement"
  /\ result.err.code = HAML_CODE.UNKNOWN_ATTR
  /\ result.err.file = "a.xml"
  /\ reads = <<"schema.xml", "a.xml">>
  /\ frames = <<>>

(***************************************************************************)
(* One node and its handlers.  The second specification drives set_attr    *)
(* and append_child directly, as the start-element arm of from_str does    *)
(* for one element: heap[1] is a node of any registered kind, the later    *)
(* heap entries are the children built for it.  A handler that returns Err *)
(* is the last call: `?` leaves from_str.                                  *)
(***************************************************************************)

\* the attribute names a start-element may carry
AttributeNames ==
  {ATTR[k] : k \in DOMAIN ATTR}
    \cup {ATTR_ENABLED, "well-known", "enable-crud-on-tables", "bogus", "Name", "xmlns"}

\* the values tried for an attribute
AttributeValues(key) ==
  CASE key = ATTR.TYPE -> {FK_TYPE.UNIQUE, FK_TYPE.FOREIGN}
    [] key = ATTR.ON_DELETE -> {"cascade", "bogus"}
    [] key = ATTR.ON_UPDATE -> {"restrict"}
    [] key = ATTR.IMPORT -> {"missing.xml"}
    [] key \in {ATTR.BEFORE, ATTR.AFTER} -> {"first", "last", "n1"}
    [] OTHER -> {"n1"}

\* the attribute names each kind's set_attr has an arm for
AllowedAttributes(kind) ==
  CASE kind = "ParsedTable" -> {ATTR.IMPORT, ATTR.NAME}
    [] kind = "Column" ->
         {ATTR.NAME, ATTR.PK, ATTR.NULLABLE, ATTR.TYPE, ATTR.UNIQUE, ATTR.DEFAULT}
    [] kind \in {"ColumnPipelineArgs", "ColumnPipelineWrite", "ColumnPipelineRead"} ->
         {ATTR.VALUE}
    [] kind = "ApiCoreApi" -> {ATTR.NAME}
    [] kind = "ApiGlobalOptions" -> {"enable-crud-on-tables"}
    [] kind = "Hypi" -> {"well-known"}
    [] kind = "Mapping" -> {ATTR.FROM, ATTR.TO, ATTR.TYPE}
    [] kind = "ApiRest" -> {ATTR.BASE}
    [] kind = "ApiEndpoint" ->
         {ATTR.ACCEPTS, ATTR.PRODUCES, ATTR.PATH, ATTR.NAME, ATTR.PUBLIC, ATTR.PIPELINE,
          ATTR.METHOD, ATTR.IMPORT}
    [] kind = "ApiEndpointResponse" -> {ATTR.STATUS, ATTR.WHEN, ATTR.YIELD}
    [] kind = "ApiEndpointSql" -> {ATTR.ASYNC, ATTR.DB, ATTR.LABEL}
    [] kind = "ApiEndpointFn" -> {ATTR.LABEL, ATTR.NAME, ATTR.ASYNC, ATTR.VERSION}
    [] kind = "ApiEndpointWebsocket" -> {ATTR.BASE, ATTR.SOURCE}
    [] kind = "ApiGraphQL" -> {ATTR.BASE, ATTR.FROM, ATTR.ENABLE_SUBSCRIPTIONS}
    [] kind = "ApiJob" ->
         {ATTR.NAME, ATTR.PIPELINE, ATTR_ENABLED, ATTR.REPEATS, ATTR.START, ATTR.END,
          ATTR.INTERVAL, ATTR.INTERVAL_FREQUENCY}
    [] kind = "ApiEndpointScript" -> {ATTR.LABEL, ATTR.ASYNC, ATTR.IMPORT}
    [] kind = "ApiEndpointCall" -> {ATTR.LABEL, ATTR.ASYNC, ATTR.TARGET}
    [] kind = "Pipeline" -> {ATTR.IMPORT, ATTR.LABEL, ATTR.NAME, ATTR.ASYNC}
    [] kind = "Pair" -> {ATTR.KEY, ATTR.VALUE}
    [] kind = "ParsedSchema" -> {ATTR.NAME}
    [] kind = "Constraint" ->
         {ATTR.NAME, ATTR.COLUMNS, ATTR.ON_DELETE, ATTR.ON_UPDATE, ATTR.TYPE}
    [] kind = "Db" ->
         {ATTR.LABEL, ATTR.DB_NAME, ATTR.HOST, ATTR.PORT, ATTR.USERNAME, ATTR.PASSWORD,
          ATTR.OPTIONS, ATTR.TYPE}
    [] kind = "Env" -> {ATTR.NAME, ATTR.VALUE}
    [] kind = "DockerStep" -> {ATTR.NAME, ATTR.BEFORE, ATTR.AFTER, ATTR.PROVIDER}
    [] kind = "DockerStepBuilder" -> {ATTR.IMAGE}
    [] OTHER -> {}

\* the child kinds each kind's append_child has an arm for; a step-builder
\* has no child elements
AllowedChildren(kind) ==
  CASE kind = "ParsedDocument" -> {"Apis", "Env", "DockerStepBuilder", "Db", "Meta"}
    [] kind = "ParsedTables" -> {"ParsedTable"}
    [] kind = "ParsedTable" -> {"Column", "Hypi", "Constraint"}
    [] kind = "Column" -> {"ColumnPipeline"}
    [] kind = "ColumnPipeline" ->
         {"ColumnPipelineArgs", "ColumnPipelineWrite", "ColumnPipelineRead"}
    [] kind \in {"DockerStep", "Hypi", "Mapping", "ApiEndpointResponse", "ApiEndpointSql",
                 "ApiEndpointFn", "ApiEndpointCall", "Constraint"} -> {"Mapping"}
    [] kind = "ApiGlobalOptions" -> {"DockerStep", "ApiCoreApi"}
    [] kind = "Apis" -> {"ApiGlobalOptions", "ApiRest", "Pipeline", "ApiGraphQL", "ApiJob"}
    [] kind = "ApiRest" -> {"ApiEndpoint"}
    [] kind = "ApiEndpoint" -> {"ApiEndpointResponse", "ApiEndpointWebsocket"}
    [] kind = "Pipeline" ->
         {"DockerStep", "ApiEndpointFn", "ApiEndpointSql", "ApiEndpointCall",
          "ApiEndpointScript", "Pipeline"}
    [] kind = "Meta" -> {"Pair"}
    [] kind = "ParsedSchema" -> {"ParsedTables", "ParsedTable"}
    [] kind = "Db" -> {"ParsedSchema"}
    [] OTHER -> {}

\* the calls made on heap[1] so far
Applied == Len(log) + Len(heap) - 1

NodeCtx(attributes) ==
  ParseCtx_new("schema.xml", [row |-> Applied, column |-> 0], attributes)

\* what a call on heap[1] that returned r leaves: Ok(node) is kept as the
\* node, Err and Call end the calls on it
returned(r, ev, attrs) ==
  /\ last.out.tag = "Ok"
  /\ Applied < MaxApplied
  /\ last' = [ev EXCEPT !.out = r]
  /\ heap' = IF r.tag = "Ok" THEN [heap EXCEPT ![1] = r.val] ELSE heap
  /\ log' = IF r.tag = "Ok" THEN log \o attrs ELSE log
  /\ reads' = IF r.tag = "Call" THEN Append(reads, r.file) ELSE reads
  /\ UNCHANGED <<frames, result, parent_of>>

\* one turn of the loop over the attributes of a start-element
set_attr_call(key, value) ==
  returned(IF key \in IGNORED_ATTRS THEN Ok(heap[1])
           ELSE set_attr(heap[1], NodeCtx(<<Attr(key, value)>>), key, value),
           Event("set_attr", key, NodeCtx(<<Attr(key, value)>>), heap[1]),
           <<Attr(key, value)>>)

\* a child element: it is built by new_node, then handed to the parent
append_child_call(name) ==
  LET ctx == NodeCtx(<<>>)
      n == new_node(Some(name_of(heap[1])), ctx, name)
      c == Len(heap) + 1
      h == Append(heap, n.val)
      r == append_child(h, 1, c, ctx)
      ev == Event("append_child", name, ctx, heap[1])
  IN /\ last.out.tag = "Ok"
     /\ Applied < MaxApplied
     /\ n.tag = "Ok"
     /\ last' = [ev EXCEPT !.out = IF r.tag = "Ok" THEN Ok(c) ELSE r]
     /\ heap' = IF r.tag = "Ok" THEN r.val ELSE h
     /\ parent_of' = Append(parent_of, IF r.tag = "Ok" THEN 1 ELSE 0)
     /\ UNCHANGED <<frames, result, reads, log>>

\* a text event while the node is the open element on top of the stack
set_str_body_call(value) ==
  /\ last.out.tag = "Ok"
  /\ Applied < MaxApplied
  /\ last' = [Event("set_str_body", value, NodeCtx(<<>>), heap[1])
               EXCEPT !.out = set_str_body(heap[1], NodeCtx(<<>>), value)]
  /\ heap' = [heap EXCEPT ![1] = set_str_body(heap[1], NodeCtx(<<>>), value).val]
  /\ UNCHANGED <<frames, result, reads, parent_of, log>>

InitNode ==
  /\ \E name \in {EL[k] : k \in DOMAIN EL}, pn \in {None, Some(EL.COLUMN)} :
       LET n == new_node(pn, NoCtx, name)
       IN n.tag = "Ok" /\ heap = <<n.val>>
  /\ frames = <<>>
  /\ result = [tag |-> "None"]
  /\ reads = <<>>
  /\ last = NoCall
  /\ parent_of = <<0>>
  /\ log = <<>>

NextNode ==
  \/ \E key \in AttributeNames : \E value \in AttributeValues(key) : set_attr_call(key, value)
  \/ \E name \in {EL[k] : k \in DOMAIN EL} : append_child_call(name)
  \/ \E value \in {"SELECT 1", "FROM t"} : set_str_body_call(value)

SpecNode == InitNode /\ [][NextNode]_vars

(***************************************************************************)
(* Properties of the handlers of one node, checked under SpecNode.         *)
(***************************************************************************)

\* the kind of the child of the last append_child call
ChildKind == heap[Len(heap)].kind

\* C1: for every node kind, an attribute whose name is not in the kind's
\* allowed set (and is not xmlns or schemaLocation) makes set_attr fail with
\* a ParseErr of code haml_unknown_attr; it is never accepted.
C1_UnknownAttrRejected ==
  (/\ last.op = "set_attr"
   /\ last.name \notin IGNORED_ATTRS
   /\ to_lowercase(last.name) \notin AllowedAttributes(last.self.kind))
  => (last.out.tag = "Err" /\ last.out.err.code = HAML_CODE.UNKNOWN_ATTR)

C1_Witness ==
  /\ last.op = "set_attr"
  /\ last.name = "bogus"
  /\ last.self.kind = "Meta"
  /\ last.out.tag = "Err"
  /\ last.out.err.code = HAML_CODE.UNKNOWN_ATTR

\* C2: for every node kind, append_child with a child whose kind is not among
\* the kind's allowed child kinds fails with a ParseErr of code
\* haml_unsupported_child: the child is never accepted and no other code is
\* reported.
C2_DisallowedChildUnsupported ==
  (/\ last.op = "append_child"
   /\ ChildKind \notin AllowedChildren(last.self.kind))
  => (last.out.tag = "Err" /\ last.out.err.code = HAML_CODE.UNSUPPORTED_CHILD)

\* C8: type=unique and then on_delete=cascade, applied to a freshly created
\* constraint, give typ = ForeignKey{on_delete: Some(Cascade), on_update: None}.
C8_TypeUniqueThenOnDelete ==
  (/\ heap[1].kind = "Constraint"
   /\ log = <<Attr(ATTR.TYPE, "unique"), Attr(ATTR.ON_DELETE, "cascade")>>)
  => heap[1].typ = ForeignKey(Some("Cascade"), None)

C8_Witness ==
  /\ heap[1].kind = "Constraint"
  /\ log = <<Attr(ATTR.TYPE, "unique"), Attr(ATTR.ON_DELETE, "cascade")>>
  /\ last.op = "set_attr"
  /\ last.self.typ = Unique
  /\ heap[1].typ.variant = "ForeignKey"

\* C9: once the typ of a constraint is ForeignKey, it is ForeignKey after
\* every later attribute, and an on_delete or on_update action it has
\* recorded is still recorded: no attribute, type=unique included, takes it
\* back to Unique.
C9_ForeignKeyIsKept ==
  [][(heap[1].kind = "Constraint" /\ heap[1].typ.variant = "ForeignKey")
       => /\ heap'[1].typ.variant = "ForeignKey"
          /\ heap[1].typ.on_delete # None => heap'[1].typ.on_delete # None
          /\ heap[1].typ.on_update # None => heap'[1].typ.on_update # None]_vars

\* the slot of a column or of a column pipeline that a child of kind k fills
SlotOf(k) ==
  CASE k = "ColumnPipeline" -> "pipeline"
    [] k = "ColumnPipelineArgs" -> "args"
    [] k = "ColumnPipelineWrite" -> "write"
    [] k = "ColumnPipelineRead" -> "read"

\* the last append_child call gave a child for a slot that was filled
RepeatedChild ==
  /\ last.op = "append_child"
  /\ \/ last.self.kind = "Column" /\ ChildKind = "ColumnPipeline"
     \/ /\ last.self.kind = "ColumnPipeline"
        /\ ChildKind \in {"ColumnPipelineArgs", "ColumnPipelineWrite", "ColumnPipelineRead"}
  /\ last.self[SlotOf(ChildKind)] # None

\* C10: a second args, write or read child of a column pipeline, and a second
\* pipeline child of a column, is rejected with a ParseErr of code
\* haml_cannot_repeat, and the slot still holds the first child.
C10_SecondChildRejected ==
  RepeatedChild
  => /\ last.out.tag = "Err"
     /\ last.out.err.code = HAML_CODE.CANNOT_REPEAT
     /\ heap[1][SlotOf(ChildKind)] = last.self[SlotOf(ChildKind)]

C10_Witness ==
  /\ RepeatedChild
  /\ last.self.kind = "ColumnPipeline"
  /\ ChildKind = "ColumnPipelineArgs"
  /\ last.self.args = Some(2)
  /\ last.out.tag = "Err"

\* the children of kind k that node p has been given
ChildrenOf(p, k) == {c \in 1..Len(heap) : parent_of[c] = p /\ heap[c].kind = k}

\* C11: a table holds at most one hypi child: a second hypi element inside
\* the same table makes the parse fail, so no table of a running or finished
\* parse has been given two.
C11_TableHasOneHypi ==
  \A p \in 1..Len(heap) :
    heap[p].kind = "ParsedTable" => Cardinality(ChildrenOf(p, "Hypi")) <= 1

(***************************************************************************)
(* The functions of the library called on their own: the third             *)
(* specification calls new_node with every element name under every        *)
(* parent, and keeps in `last` the arguments and what was returned; log    *)
(* counts the calls.                                                       *)
(***************************************************************************)

\* the names ParsedHypiSchemaElement::name gives to the kinds
KnownElementNames == {name_of([kind |-> k]) : k \in Kinds}

FnCtx == ParseCtx_new("schema.xml", [row |-> Len(log), column |-> 0], <<>>)

\* new_node(parent, ctx, name): parent_name is the name of the parent, if any
new_node_call(parent_name, name) ==
  /\ Len(log) < MaxApplied
  /\ last' = [Event("new_node", name, FnCtx, parent_name)
                EXCEPT !.out = new_node(parent_name, FnCtx, name)]
  /\ log' = Append(log, "new_node")
  /\ UNCHANGED <<heap, frames, result, reads, parent_of>>

\* value.parse::<DockerStepProvider>(), called on its own
DockerStepProvider_from_str_call(raw) ==
  /\ Len(log) < MaxApplied
  /\ last' = [Event("DockerStepProvider::from_str", raw, FnCtx, None)
               EXCEPT !.out = DockerStepProvider_from_str(chars(raw))]
  /\ log' = Append(log, "from_str")
  /\ UNCHANGED <<heap, frames, result, reads, parent_of>>

\* parse_docker_image, called on its own
parse_docker_image_call(raw) ==
  /\ Len(log) < MaxApplied
  /\ last' = [Event("parse_docker_image", raw, FnCtx, None)
               EXCEPT !.out = parse_docker_image(chars(raw))]
  /\ log' = Append(log, "parse_docker_image")
  /\ UNCHANGED <<heap, frames, result, reads, parent_of>>

\* value.parse::<ImplicitDockerStepPosition>(), called on its own
ImplicitDockerStepPosition_from_str_call(input) ==
  /\ Len(log) < MaxApplied
  /\ last' = [Event("ImplicitDockerStepPosition::from_str", input, FnCtx, None)
               EXCEPT !.out = ImplicitDockerStepPosition_from_str(input)]
  /\ log' = Append(log, "position")
  /\ UNCHANGED <<heap, frames, result, reads, parent_of>>

InitFn ==
  /\ heap = <<>>
  /\ frames = <<>>
  /\ result = [tag |-> "None"]
  /\ reads = <<>>
  /\ last = NoCall
  /\ parent_of = <<>>
  /\ log = <<>>

NextFn ==
  \/ \E parent_name \in {None} \cup {Some(n) : n \in KnownElementNames},
        name \in KnownElementNames \cup {EL.PROVIDER, "bogus", "Table"} :
       new_node_call(parent_name, name)
  \/ \E raw \in DOMAIN CharsOf : DockerStepProvider_from_str_call(raw)
  \/ \E raw \in DOMAIN CharsOf : parse_docker_image_call(raw)
  \/ \E input \in {"first", "each", "last", "First", "bogus", ""} :
       ImplicitDockerStepPosition_from_str_call(input)

SpecFn == InitFn /\ [][NextFn]_vars

\* the kind a known element name stands for under a parent
KindFor(name, parent_name) ==
  IF name = EL.PIPELINE
  THEN IF parent_name = Some(EL.COLUMN) THEN "ColumnPipeline" ELSE "Pipeline"
  ELSE CHOOSE k \in Kinds : name_of([kind |-> k]) = name

\* the default of field f of a node of a kind, from the type the struct
\* declares for it: "" for a String, None for an Option, an empty sequence for
\* a Vec, false for a bool (a column is nullable and graphql has its
\* subscriptions enabled), 0 for a number, the first variant for an enum and
\* "/" for the base path of rest and websocket
DefaultOf(kind, f) ==
  LET Strings ==
        [ParsedTable |-> {"name"}, Column |-> {"name"}, ColumnPipelineArgs |-> {"value"},
         ColumnPipelineWrite |-> {"value"}, ColumnPipelineRead |-> {"value"},
         DockerStep |-> {"name"}, Mapping |-> {"from"}, ApiEndpointSql |-> {"sql"},
         ApiEndpointFn |-> {"name", "version"}, ApiGraphQL |-> {"from", "base"},
         ApiJob |-> {"name", "pipeline", "start", "end", "interval", "interval_frequency"},
         ApiEndpointScript |-> {"file"}, ApiEndpointCall |-> {"target"},
         Pipeline |-> {"name"}, Pair |-> {"key", "value"}, ParsedSchema |-> {"name"},
         Constraint |-> {"name"}, Env |-> {"name", "value"}, ApiCoreApi |-> {"value"},
         Db |-> {"label", "db_name", "host", "username", "password"},
         DockerStepBuilder |-> {"image"}]
      Enums ==
        [Column |-> "TEXT", Db |-> "MekaDb", ApiEndpointScript |-> "JavaScript",
         Constraint |-> Unique]
  IN CASE f \in {"start_pos", "end_pos"} -> Location_default
       [] f \in {"nullable", "enable_subscriptions"} -> TRUE
       [] f \in {"unique", "primary_key", "is_async", "enabled", "repeats"} -> FALSE
       [] f = "status" -> 0
       [] f = "typ" /\ kind \in DOMAIN Enums -> Enums[kind]
       [] f = "method" -> "Default"
       [] f = "provider" -> Dockerfile(".")
       [] f = "base" /\ kind \in {"ApiRest", "ApiEndpointWebsocket"} -> "/"
       [] kind \in DOMAIN Strings /\ f \in Strings[kind] -> ""
       [] OTHER -> <<>>

AtDefaults(node) == \A f \in DOMAIN node \ {"kind"} : node[f] = DefaultOf(node.kind, f)

\* C12: for every known element name new_node returns a node of the kind the
\* name stands for, with every field at its default (a column is nullable, a
\* pipeline is not asynchronous); the parent changes the result only for the
\* name pipeline; for every other name it fails with haml_unknown_element.
C12_NewNodeDefaults ==
  last.op = "new_node" =>
    IF last.name \in KnownElementNames
    THEN /\ last.out.tag = "Ok"
         /\ last.out.val.kind = KindFor(last.name, last.self)
         /\ AtDefaults(last.out.val)
         /\ last.out.val.kind = "Column" => last.out.val.nullable = TRUE
         /\ last.out.val.kind = "Pipeline" => last.out.val.is_async = FALSE
         /\ last.name # EL.PIPELINE => last.out = new_node(None, last.ctx, last.name)
    ELSE /\ last.out.tag = "Err"
         /\ last.out.err.code = HAML_CODE.UNKNOWN_EL

C12_Witness ==
  /\ last.op = "new_node"
  /\ last.name = EL.PIPELINE
  /\ last.self = Some(EL.TABLE)
  /\ last.out.tag = "Ok"
  /\ last.out.val.kind = "Pipeline"
  /\ last.out.val.is_async = FALSE

\* C13: every ordered collection of a node lists accepted children, each
\* once, in the order in which they were created (the order of their
\* start-elements), and an accepted child only ever extends a collection at
\* its end: the i-th accepted db of a document is at index i of databases,
\* and likewise for env, step-builder, columns, constraints, tables, steps,
\* endpoints and every other collection.
C13_CollectionsKeepOrder ==
  LET Collections ==
        {"env", "step_builders", "databases", "columns", "constraints", "mappings",
         "children", "implicit_steps", "pipelines", "jobs", "items", "endpoints",
         "responses", "websockets", "docker_steps", "steps", "key_value_pairs",
         "tables", "schemas"}
      PtrOf(f, x) == IF f = "steps" THEN x.ptr ELSE x
  IN \A p \in {q \in 1..Len(heap) : heap[q].kind # "Constraint"} :
     \A f \in Collections \cap DOMAIN heap[p] :
       /\ \A i \in 1..Len(heap[p][f]) : parent_of[PtrOf(f, heap[p][f][i])] # 0
       /\ \A i, j \in 1..Len(heap[p][f]) :
            i < j => PtrOf(f, heap[p][f][i]) < PtrOf(f, heap[p][f][j])
       /\ (last.op = "append_child" /\ last.out.tag = "Ok" /\ p = 1
           /\ heap[p][f] # last.self[f])
          => last.self[f] = SubSeq(heap[p][f], 1, Len(heap[p][f]) - 1)

\* C14: a text event given to a sql or a response element stores exactly the
\* text of that event as the body, whatever earlier text events stored (the
\* chunks are never joined), and a text event leaves every other field, and
\* every other kind of element, as it was.
C14_TextOverwrites ==
  last.op = "set_str_body"
  => /\ last.out.tag = "Ok"
     /\ heap[1] = last.out.val
     /\ heap[1] = CASE last.self.kind = "ApiEndpointSql" -> [last.self EXCEPT !.sql = last.name]
                    [] last.self.kind = "ApiEndpointResponse" ->
                         [last.self EXCEPT !.body = Some(last.name)]
                    [] OTHER -> last.self

C14_Witness ==
  /\ last.op = "set_str_body"
  /\ last.self.kind = "ApiEndpointSql"
  /\ last.self.sql = "SELECT 1"
  /\ last.name = "FROM t"
  /\ heap[1].sql = "FROM t"

\* C15: an error event of the tokenizer, at any depth of the open-element
\* stack and in an imported file as well, ends the parse at once with a
\* ParseErr whose code is haml_xml_syntax, haml_xml_io, haml_xml_utf8 or
\* haml_xml_eof according to the kind of the error (syntax, I/O, encoding,
\* unexpected end of input); no tree is returned.
C15_TokenizerErrorEndsParse ==
  last.op = "Err"
  => /\ result.tag = "Err"
     /\ result = last.out
     /\ result.err.code = CASE last.name = "Syntax" -> "haml_xml_syntax"
                            [] last.name = "Io" -> "haml_xml_io"
                            [] last.name = "Utf8" -> "haml_xml_utf8"
                            [] last.name = "UnexpectedEof" -> "haml_xml_eof"
     /\ result.err.element = "<>"
     /\ \E i \in 1..Len(reads) : result.err.file = reads[i]
     /\ frames = <<>>
     /\ heap = <<>>

C15_Witness ==
  /\ last.op = "Err"
  /\ last.name = "UnexpectedEof"
  /\ result.tag = "Err"
  /\ result.err.code = "haml_xml_eof"
  /\ result.err.file = "a.xml"
  /\ result.err.line = 2
  /\ reads = <<"schema.xml", "a.xml">>

\* C16: an end-of-document that comes before any start-element of the file
\* has been processed makes from_str fail with code haml_no_root.  Otherwise
\* the root of a file is the node of its first start-element and stays that
\* node, and a successful parse returns it with the open-element stack empty.
C16_RootIsFirstElement ==
  [][/\ (Running /\ top.root = None /\ last'.op = "EndDocument")
          => (result'.tag = "Err" /\ result'.err.code = "haml_no_root"
              /\ result'.err.file = top.file_name)
     /\ \A i \in 1..Len(frames) :
          (i <= Len(frames') /\ frames'[i].file_name = frames[i].file_name)
          => IF frames[i].root # None THEN frames'[i].root = frames[i].root
             ELSE frames'[i].root # None
                  => /\ frames'[i].root = Some(Len(heap'))
                     /\ frames'[i].q = <<Len(heap')>>
                     /\ last'.op \in {"StartElement", "import"}
     /\ (result.tag = "None" /\ result'.tag = "Ok")
          => /\ Len(frames) = 1
             /\ top.q = <<>>
             /\ top.root = Some(result'.val)
             /\ frames' = <<>>]_vars

C16_Witness ==
  /\ last.op = "EndDocument"
  /\ result.tag = "Ok"
  /\ result.val = 1
  /\ heap[1].kind = "ParsedDocument"
  /\ Len(heap) = 3
  /\ parent_of = <<0, 1, 1>>
  /\ frames = <<>>

\* C17: an attribute named xmlns or schemaLocation never changes the outcome
\* of a start-element: the node and the success, failure or import it ends
\* in are those of the same start-element without these attributes, also on
\* an element that carries import.
C17_IgnoredAttrsChangeNothing ==
  (/\ last.op = "StartElement"
   /\ last.self # None
   /\ \E i \in 1..Len(last.ctx.attributes) : last.ctx.attributes[i].name \in IGNORED_ATTRS)
  => LET without == SelectSeq(last.ctx.attributes, LAMBDA a : a.name \notin IGNORED_ATTRS)
         ctx == [last.ctx EXCEPT !.attributes = without]
         pn == IF last.self[1].kind = "ColumnPipeline" THEN Some(EL.COLUMN) ELSE None
         n == new_node(pn, ctx, last.name).val
         r == set_attrs(IF "start_pos" \in DOMAIN n
                        THEN [n EXCEPT !.start_pos = last.self[1].start_pos] ELSE n,
                        ctx, 1)
     IN CASE r.tag = "Ok" -> last.self = Some(r.val)
          [] r.tag = "Err" -> last.self = Some(r.self) /\ last.out = Err(r.err)
          [] r.tag = "Call" ->
               /\ last.self = Some(r.self)
               /\ last.out.tag = "Err" => last.out.err.code = HAML_CODE.MISSING_IMPORT
               /\ reads[Len(reads)] = r.file

\* C18: DockerStepProvider::from_str gives, for each fixture, exactly the
\* listed value: hypi:form is the image form without tag or credentials;
\* hypi:repo.hypi.ai/rapid-plugin-form:v2 is that image with tag v2;
\* hypi:user2:pass2@repo.hypi.ai/rapid-plugin-form:v2 adds the username user2
\* and the password pass2; file:my-plugin/Dockerfile is the Dockerfile of
\* path my-plugin; remote:localhost:2020 is the remote host localhost with
\* port 2020 and remote:localhost the same host without port; a string
\* without a known prefix and without `:` is rejected.
C18_ProviderFixtures ==
  last.op = "DockerStepProvider::from_str"
  => LET raw == CharsOf[last.name]
         v == last.out.val
         Image(img, tag, username, password) ==
           /\ last.out.tag = "Ok"
           /\ v.variant = "DockerImage"
           /\ v.info.image = img
           /\ v.info.tag = tag
           /\ v.info.username = username
           /\ v.info.password = password
     IN CASE last.name = "hypi:form" -> Image(<<"f", "o", "r", "m">>, None, None, None)
          [] last.name = "hypi:repo.hypi.ai/rapid-plugin-form:v2" ->
               Image(SubSeq(raw, 6, 35), Some(<<"v", "2">>), None, None)
          [] last.name = "hypi:user2:pass2@repo.hypi.ai/rapid-plugin-form:v2" ->
               Image(SubSeq(raw, 18, 47), Some(<<"v", "2">>),
                     Some(<<"u", "s", "e", "r", "2">>), Some(<<"p", "a", "s", "s", "2">>))
          [] last.name = "file:my-plugin/Dockerfile" ->
               last.out = Ok([variant |-> "Dockerfile",
                              path |-> <<"m", "y", "-", "p", "l", "u", "g", "i", "n">>])
          [] last.name = "remote:localhost:2020" ->
               last.out = Ok([variant |-> "Remote", host |-> SubSeq(raw, 8, 16),
                              port |-> Some(<<"2", "0", "2", "0">>)])
          [] last.name = "remote:localhost" ->
               last.out = Ok([variant |-> "Remote", host |-> SubSeq(raw, 8, 16),
                              port |-> None])
          [] last.name = "plain" -> last.out.tag = "Err"
          [] OTHER -> TRUE

C18_Witness ==
  /\ last.op = "DockerStepProvider::from_str"
  /\ last.name = "hypi:user2:pass2@repo.hypi.ai/rapid-plugin-form:v2"
  /\ last.out.tag = "Ok"
  /\ last.out.val.info.tag = Some(<<"v", "2">>)
  /\ Len(last.out.val.info.image) = 30

\* C19: a start-element creates the node, stamps its start Location, applies
\* its attributes in source order, pushes it on the stack and hands it to the
\* append_child of the element that was on top: the parent is given the
\* child with every attribute applied, in the same step, so before any event
\* of the child's own children or text, and the child is attached to its
\* parent while it is still open on the stack.  A failure of an earlier of
\* these steps is the one reported.
C19_StartElementOrder ==
  [][(/\ last'.op = "StartElement"
      /\ last'.self # None
      /\ Running)
     => \A ctx \in {last'.ctx}, old \in {top.q}, c \in {Len(heap) + 1} :
        \A pn \in {IF old = <<>> THEN None ELSE Some(name_of(heap[old[Len(old)]]))} :
        \A stamped \in {set_location(new_node(pn, ctx, last'.name).val, ctx.line_number,
                                     ctx.column, Len(top.child_index), top.file_name, TRUE)} :
        \A r \in {set_attrs(stamped, ctx, 1)} :
             IF r.tag # "Ok" THEN /\ last'.self = Some(r.self)
                                  /\ r.tag = "Err" => last'.out = Err(r.err)
             ELSE /\ last'.self = Some(r.val)
                  /\ IF old = <<>>
                     THEN last'.out.tag = "Ok" /\ heap' = Append(heap, r.val)
                     ELSE \A a \in {append_child(Append(heap, r.val), old[Len(old)], c, ctx)} :
                            IF a.tag = "Err" THEN last'.out = a ELSE heap' = a.val
                  /\ last'.out.tag = "Ok"
                     => /\ heap'[c] = r.val
                        /\ frames'[Len(frames')].q = Append(old, c)
                        /\ parent_of'[c] = IF old = <<>> THEN 0 ELSE old[Len(old)]]_vars

C19_Witness ==
  /\ last.op = "StartElement"
  /\ last.name = EL.DB
  /\ last.out.tag = "Ok"
  /\ Len(heap) = 3
  /\ heap[3].db_name = "d"
  /\ heap[3].host = "h"
  /\ heap[1].databases = <<2, 3>>
  /\ frames[1].q = <<1, 3>>
  /\ parent_of[3] = 1

\* C20: a node whose end-element has been processed (it is on no open-element
\* stack any more) is never changed again while the parse goes on: no
\* attribute, text, Location, child or replacement of its fields, the splice
\* of an import included.
C20_ClosedNodesAreImmutable ==
  [][\A n \in 1..Len(heap) :
       (/\ \A i \in 1..Len(frames) : \A j \in 1..Len(frames[i].q) : frames[i].q[j] # n
        /\ n <= Len(heap'))
       => heap'[n] = heap[n]]_vars

(***************************************************************************)
(* The parse of files whose contents are fixed: log holds, for every file  *)
(* of the file system, the events its tokenizer delivers, and every        *)
(* from_str of a file reads these events from the first one on.            *)
(***************************************************************************)
\* parser.next(): the next event of the file on top, given to the event loop
parser_next ==
  /\ Running
  /\ top.row < Len(log[top.file_name])
  /\ \E e \in {log[top.file_name][top.row + 1]} :
       CASE e.type = "StartElement" -> StartElement(e.name, e.attributes)
         [] e.type = "EndElement" -> EndElement
         [] e.type = "EndDocument" -> EndDocument

\* a file is one importable element, with or without an import, or a pipeline
\* around a pipeline that imports
InitVfs ==
  /\ heap = <<>>
  /\ frames = <<>>
  /\ result = [tag |-> "None"]
  /\ reads = <<>>
  /\ last = NoCall
  /\ parent_of = <<>>
  /\ LET s(name, attributes) ==
           [type |-> "StartElement", name |-> name, attributes |-> attributes]
         e == [type |-> "EndElement", name |-> "", attributes |-> <<>>]
         d == [type |-> "EndDocument", name |-> "", attributes |-> <<>>]
         Lists == {<<>>} \cup {<<Attr(ATTR.IMPORT, file)>> : file \in VfsFiles}
     IN log \in [VfsFiles ->
                   {<<s(name, a), e, d>> : name \in {EL.TABLE, EL.ENDPOINT, EL.PIPELINE},
                                           a \in Lists}
                   \cup {<<s(EL.PIPELINE, <<>>), s(EL.PIPELINE, a), e, e, d>> :
                           a \in Lists \ {<<>>}}]

NextVfs ==
  \/ \E file_name \in VfsFiles : from_str(file_name)
  \/ parser_next

SpecVfs == InitVfs /\ [][NextVfs]_vars /\ WF_vars(NextVfs)

C23_AttrNamesIgnoreCase ==
  (/\ last.op = "set_attr"
   /\ last.name \notin IGNORED_ATTRS
   /\ to_lowercase(last.name) \in AllowedAttributes(last.self.kind))
  => last.out = set_attr(last.self, last.ctx, to_lowercase(last.name),
                         last.ctx.attributes[1].value)

\* C24: the error of a rejected attribute or a rejected child names the
\* rejecting element: its element field is the element name of the kind
\* whose set_attr or append_child failed, for every kind.
C24_ErrorNamesElement ==
  (/\ last.op \in {"set_attr", "append_child"}
   /\ last.out.tag = "Err")
  => last.out.err.element = name_of(last.self)

\* C25: an attribute whose value is parsed as a number or looked up in an
\* enumeration fails the parse when the value cannot be coerced: set_attr
\* of such an attribute with a value that is no number and no member of
\* any enumeration returns an error, for every kind that has one.
C25_UncoercibleValueFails ==
  LET Coerced ==
        [ApiEndpointResponse |-> {ATTR.STATUS},
         Db |-> {ATTR.PORT, ATTR.TYPE},
         Column |-> {ATTR.TYPE},
         Mapping |-> {ATTR.TYPE},
         ApiEndpoint |-> {ATTR.METHOD},
         Constraint |-> {ATTR.TYPE, ATTR.ON_DELETE, ATTR.ON_UPDATE},
         Hypi |-> {"well-known"},
         DockerStep |-> {ATTR.BEFORE, ATTR.AFTER}]
  IN (/\ last.op = "set_attr"
      /\ last.self.kind \in DOMAIN Coerced
      /\ last.name \in Coerced[last.self.kind]
      /\ last.ctx.attributes[1].value \in {"n1", "bogus"})
     => last.out.tag = "Err"

\* C26: body text delivered to a column pipeline's args, write or read is
\* accepted and stored as that node's value; body text delivered to any
\* kind other than sql, response, args, write and read is accepted and
\* leaves the node as it was.
C26_PipelineTextStored ==
  last.op = "set_str_body"
  => IF last.self.kind \in {"ColumnPipelineArgs", "ColumnPipelineWrite",
                            "ColumnPipelineRead"}
     THEN last.out.tag = "Ok" /\ last.out.val.value = last.name
     ELSE last.self.kind \notin {"ApiEndpointSql", "ApiEndpointResponse"}
          => last.out = Ok(last.self)

\* C27: the end-element of a db fails when its db_name is empty or only
\* whitespace, else when its host is empty or only whitespace, and else
\* succeeds; the end-element of every other kind succeeds; so no db of a
\* returned tree lacks a db_name or a host.
C27_DbValidatedAtEnd ==
  /\ [][(Running /\ top.q # <<>> /\ last'.op = "EndElement")
         => \A node \in {heap[top.q[Len(top.q)]]} :
              IF node.kind = "Db"
                 /\ (trim_is_empty(node.db_name) \/ trim_is_empty(node.host))
              THEN /\ result'.tag = "Err"
                   /\ result'.err.code = HAML_CODE.UNSUPPORTED_CHILD
                   /\ result'.err.file = top.file_name
              ELSE /\ result' = result
                   /\ Len(frames') = Len(frames)
                   /\ frames'[Len(frames)].q = SubSeq(top.q, 1, Len(top.q) - 1)]_vars
  /\ [](result.tag = "Ok"
        => \A n \in 1..Len(heap) :
             heap[n].kind = "Db"
             => ~trim_is_empty(heap[n].db_name) /\ ~trim_is_empty(heap[n].host))

C27_Witness ==
  /\ last.op = "EndElement"
  /\ last.self # None
  /\ last.self[1].kind = "Db"
  /\ last.self[1].db_name = "d"
  /\ last.self[1].host = " "
  /\ result.tag = "Err"

\* C28: parse_docker_image on [user:pass@]image[:tag] returns as image the
\* image segment (the part after @ when there is one) up to its first
\* colon, and as tag the text after the last colon of that segment, or
\* None when the segment has no colon, with or without credentials; a
\* credentials part without a colon is rejected.
C28_DockerImageAndTag ==
  last.op = "parse_docker_image"
  => LET input == chars(last.name)
         Ats == {i \in 1..Len(input) : input[i] = "@"}
         at == IF Ats = {} THEN 0 ELSE CHOOSE i \in Ats : \A j \in Ats : i <= j
         cred == SubSeq(input, 1, at - 1)
         seg == SubSeq(input, at + 1, Len(input))
         Colons == {i \in 1..Len(seg) : seg[i] = ":"}
         first == CHOOSE i \in Colons : \A j \in Colons : i <= j
         final == CHOOSE i \in Colons : \A j \in Colons : i >= j
     IN IF at # 0 /\ \A i \in 1..Len(cred) : cred[i] # ":"
        THEN last.out.tag = "Err"
        ELSE /\ last.out.tag = "Ok"
             /\ last.out.val.image =
                  IF Colons = {} THEN seg ELSE SubSeq(seg, 1, first - 1)
             /\ last.out.val.tag =
                  IF Colons = {} THEN None ELSE Some(SubSeq(seg, final + 1, Len(seg)))

\* C29: on a step the before attribute sets implicit_before_position and
\* leaves implicit_after_position as it was, and the after attribute sets
\* implicit_after_position and leaves implicit_before_position as it was,
\* in any order and combination of the two.
C29_BeforeAfterOwnFields ==
  (/\ last.op = "set_attr"
   /\ last.self.kind = "DockerStep"
   /\ last.out.tag = "Ok")
  => /\ last.name = ATTR.BEFORE
        => /\ last.out.val.implicit_before_position # None
           /\ last.out.val.implicit_after_position = last.self.implicit_after_position
     /\ last.name = ATTR.AFTER
        => /\ last.out.val.implicit_after_position # None
           /\ last.out.val.implicit_before_position = last.self.implicit_before_position

\* C30: ImplicitDockerStepPosition::from_str maps first to First, each to
\* Each and last to Last, three distinct positions, and rejects every other
\* string with an error.
C30_StepPositions ==
  last.op = "ImplicitDockerStepPosition::from_str"
  => CASE last.name = "first" -> last.out = Ok("First")
       [] last.name = "each" -> last.out = Ok("Each")
       [] last.name = "last" -> last.out = Ok("Last")
       [] OTHER -> last.out.tag = "Err"

====
